---------------------------- MODULE Spec2Model ----------------------------
(***************************************************************************)
(* A model of the ALAC decoder of alac.rs: the bit cursor (bitcursor.rs),  *)
(* the stream descriptor parser (lib.rs) and the packet decoder (dec.rs).  *)
(*                                                                         *)
(* Three specifications share the module:                                  *)
(*   SpecCursor  - a BitCursor over a byte slice, driven by reads/skips    *)
(*   SpecCookie  - StreamInfo::from_cookie / from_sdp_format_parameters    *)
(*   SpecDecode  - Decoder::decode_packet, one dispatch iteration a step   *)
(***************************************************************************)
EXTENDS Integers, Sequences, FiniteSets, TLC

VARIABLES
    debug,      \* build kind: TRUE = overflow checks and debug_assert! on
    data,       \* SpecCursor: the byte slice the cursor was created over
    bc,         \* SpecCursor: the BitCursor
    res,        \* SpecCursor: the last operation and its result
    input,      \* SpecCookie: the cookie bytes or SDP text handed to a parser
    parsed,     \* SpecCookie: the parser's result
    config,     \* SpecDecode: the Decoder's StreamInfo
    buf,        \* SpecDecode: the Decoder's scratch buffer of 2 * frame_length i32
    sbits,      \* SpecDecode: S::bits() of the sample type S of the call
    packet,     \* SpecDecode: the packet decode_packet is called on
    out,        \* SpecDecode: the output slice
    reader,     \* SpecDecode: decode_packet's BitCursor over the packet
    channel_index,  \* SpecDecode: decode_packet's channel_index
    frame_samples,  \* SpecDecode: decode_packet's frame_samples, <<>> for None
    ret,        \* SpecDecode: "idle", "running", or how the call ended
    log,        \* SpecDecode: the audio elements met, in packet order
    written,    \* SpecDecode: the positions of out written by the call
    covered,    \* SpecDecode: the number of channels of the elements decoded
    last,       \* SpecDecode: the tag of the last element met, -1 for none
    mp4,        \* SpecReader: the Mp4PacketReader and the stream it reads
    iter,       \* SpecReader: the Samples iterator's sample_len and sample_pos
    hist        \* SpecReader: what the calls of next fetched, decoded, returned

cursorVars == <<data, bc, res>>
cookieVars == <<input, parsed>>
decodeVars == <<config, buf, sbits, packet, out, reader, channel_index,
                frame_samples, ret, log, written, covered, last>>
readerVars == <<mp4, iter, hist>>
vars == <<debug, data, bc, res, input, parsed, decodeVars, readerVars>>

---------------------------------------------------------------------------
(* Fixed-width integers.  A 32-bit word (u32 or i32) is held as the     *)
(* integer in -2^31 .. 2^31-1 with the same two's-complement bit pattern,  *)
(* so an i32 is its own value and a u32 of 2^31 or more is held as the     *)
(* value minus 2^32.  The operators below work on the two 16-bit halves,   *)
(* which keeps every intermediate inside the range of the integers the     *)
(* model checker computes with.  u8, u16 and usize values are naturals.    *)

Min(a, b) == IF a <= b THEN a ELSE b

Pow2(n) == 2 ^ n

U8  == 256
U16 == 65536

\* the unsigned halves of a word, and the word of two unsigned halves
UHi(w) == (w \div U16) % U16
Lo(w)  == w % U16
Mk(hi, lo) == (IF hi >= 32768 THEN hi - U16 ELSE hi) * U16 + lo

RECURSIVE BitOr(_, _)
BitOr(a, b) ==
    IF a = 0 THEN b
    ELSE IF b = 0 THEN a
    ELSE (IF (a % 2 = 1) \/ (b % 2 = 1) THEN 1 ELSE 0)
         + 2 * BitOr(a \div 2, b \div 2)

RECURSIVE BitAnd(_, _)
BitAnd(a, b) ==
    IF a = 0 \/ b = 0 THEN 0
    ELSE (IF (a % 2 = 1) /\ (b % 2 = 1) THEN 1 ELSE 0)
         + 2 * BitAnd(a \div 2, b \div 2)

\* a | b on words
WOr(a, b) == Mk(BitOr(UHi(a), UHi(b)), BitOr(Lo(a), Lo(b)))

\* a << n on a word, 0 <= n < 32: bits shifted out are dropped
WShl(w, n) ==
    IF n >= 16
    THEN Mk((Lo(w) * Pow2(n - 16)) % U16, 0)
    ELSE LET l == Lo(w) * Pow2(n)
         IN  Mk((UHi(w) * Pow2(n) + l \div U16) % U16, l % U16)

\* a >> n on a u32 (logical), 0 <= n < 32
UShr(w, n) ==
    IF n >= 16
    THEN Mk(0, UHi(w) \div Pow2(n - 16))
    ELSE Mk(UHi(w) \div Pow2(n),
            Lo(w) \div Pow2(n) + (UHi(w) % Pow2(n)) * Pow2(16 - n))

\* a + b on u32: the wrapped sum and whether the true sum needs a 33rd bit
UAddOf(l, h) == [val |-> Mk(h % U16, l % U16), ovf |-> h >= U16]
UAdd(a, b) == UAddOf(Lo(a) + Lo(b), UHi(a) + UHi(b) + (Lo(a) + Lo(b)) \div U16)

\* a * b on u32, for a multiplier b below 2^15: the low 32 bits of the
\* product and whether the true product needs more
UMul(a, b) == UAddOf(Lo(a) * b, UHi(a) * b + (Lo(a) * b) \div U16)

\* unsigned comparison of two words
ULt(a, b) == \/ UHi(a) < UHi(b)
             \/ UHi(a) = UHi(b) /\ Lo(a) < Lo(b)
ULe(a, b) == a = b \/ ULt(a, b)

---------------------------------------------------------------------------
(* bitcursor.rs                                                            *)

U32_BITS == 32

\* A faulty register that assembles the four bytes least significant first
RegisterLittleEndian(b0, b1, b2, b3) ==
    WOr(WOr(WShl(b3, 24), WShl(b2, 16)), WOr(WShl(b1, 8), b0))

\* The register of advance(): the big-endian word of four bytes
Register(b0, b1, b2, b3) ==
    WOr(WOr(WShl(b0, 24), WShl(b1, 16)), WOr(WShl(b2, 8), b3))

\* BitCursor::advance: refill the register from up to four bytes of buf,
\* the bytes past the end of buf being zero
advance(c) ==
    [buf         |-> SubSeq(c.buf, Min(4, Len(c.buf)) + 1, Len(c.buf)),
     current     |-> Register(IF Len(c.buf) >= 1 THEN c.buf[1] ELSE 0,
                              IF Len(c.buf) >= 2 THEN c.buf[2] ELSE 0,
                              IF Len(c.buf) >= 3 THEN c.buf[3] ELSE 0,
                              IF Len(c.buf) >= 4 THEN c.buf[4] ELSE 0),
     current_len |-> Min(4, Len(c.buf)) * 8,
     current_pos |-> 0]

\* BitCursor::new
BitCursorNew(b) ==
    advance([buf |-> b, current |-> 0, current_len |-> 0, current_pos |-> 0])

\* A faulty bounds check that refuses a read of exactly the bits that remain
check_enough_bits_strict(c, bits) ==
    bits < Len(c.buf) * 8 + (c.current_len - c.current_pos)

\* BitCursor::check_enough_bits
check_enough_bits(c, bits) ==
    bits <= Len(c.buf) * 8 + (c.current_len - c.current_pos)

\* The result of a cursor operation: st is "ok", "nodata" (NotEnoughData)
\* or "panic"; val the value read; cur the cursor afterwards.
CurRes(st, val, c) == [st |-> st, val |-> val, cur |-> c]

\* read_u32, reading to or past the end of the register: a is the cursor
\* after advance(), c the cursor before it
ReadAcross(c, bits, a) ==
    IF debug /\ c.current_pos > U32_BITS - 1
    THEN CurRes("panic", 0, c)
    ELSE CurRes("ok",
                UShr(WOr(WShl(c.current, c.current_pos % 32),
                         UShr(UShr(a.current, (U32_BITS - 1 - c.current_pos) % 32), 1)),
                     (U32_BITS - bits) % 32),
                [a EXCEPT !.current_pos = (bits - (c.current_len - c.current_pos)) % U8])

\* BitCursor::read_u32
read_u32(c, bits) ==
    IF bits > 32 THEN CurRes("panic", 0, c)
    ELSE IF debug /\ bits = 0 THEN CurRes("panic", 0, c)
    ELSE IF ~check_enough_bits(c, bits) THEN CurRes("nodata", 0, c)
    ELSE IF debug /\ ~(c.current_pos < c.current_len) THEN CurRes("panic", 0, c)
    ELSE IF bits >= c.current_len - c.current_pos
    THEN ReadAcross(c, bits, advance(c))
    ELSE CurRes("ok",
                UShr(WShl(c.current, c.current_pos % 32), (U32_BITS - bits) % 32),
                [c EXCEPT !.current_pos = c.current_pos + bits])

\* the result of read_u32 cast to a narrower unsigned type of m values
Narrow(r, m) == [r EXCEPT !.val = Lo(r.val) % m]

\* BitCursor::read_u8
read_u8(c, bits) ==
    IF bits > 8 THEN CurRes("panic", 0, c)
    ELSE IF debug /\ bits = 0 THEN CurRes("panic", 0, c)
    ELSE Narrow(read_u32(c, bits), U8)

\* BitCursor::read_u16
read_u16(c, bits) ==
    IF bits > 16 THEN CurRes("panic", 0, c)
    ELSE IF debug /\ bits = 0 THEN CurRes("panic", 0, c)
    ELSE Narrow(read_u32(c, bits), U16)

\* read_bit's match on the word read (val 1 = true, 0 = false)
MatchBit(c, r) ==
    IF r.st = "ok" /\ r.val \notin {0, 1} THEN CurRes("panic", 0, c) ELSE r

\* BitCursor::read_bit
read_bit(c) == MatchBit(c, read_u32(c, 1))

\* skip, skipping past the end of the register: a is the cursor after
\* buf was advanced by skip_buf_bits >> 3 bytes and the register refilled
SkipAcross(skip_buf_bits, a) ==
    CurRes("ok", 0, [a EXCEPT !.current_pos = BitAnd(skip_buf_bits, 7)])

\* BitCursor::skip
skip(c, bits) ==
    IF ~check_enough_bits(c, bits) THEN CurRes("nodata", 0, c)
    ELSE IF bits >= c.current_len - c.current_pos
    THEN SkipAcross(bits - (c.current_len - c.current_pos),
                    advance([c EXCEPT !.buf =
                        SubSeq(c.buf,
                               ((bits - (c.current_len - c.current_pos)) \div 8) + 1,
                               Len(c.buf))]))
    ELSE CurRes("ok", 0, [c EXCEPT !.current_pos = c.current_pos + bits])

\* A faulty skip_to_byte that skips a whole byte from an aligned position
skip_to_byte_always(c) == skip(c, 8 - BitAnd(c.current_pos, 7))

\* BitCursor::skip_to_byte
skip_to_byte(c) ==
    IF BitAnd(c.current_pos, 7) # 0
    THEN skip(c, 8 - BitAnd(c.current_pos, 7))
    ELSE CurRes("ok", 0, c)

---------------------------------------------------------------------------
(* lib.rs: StreamInfo                                                      *)

\* read_be_u16 of a two-byte slice
read_be_u16(b) == BitOr((b[1] * U8) % U16, b[2])

\* read_be_u32 of a four-byte slice
read_be_u32(b) ==
    WOr(WOr(WOr(WShl(b[1], 24), WShl(b[2], 16)), WShl(b[3], 8)), b[4])

\* The result of a parser: st is "ok", "err" (InvalidData) or "panic"
ParseErr(msg) == [st |-> "err", msg |-> msg]
ParsePanic == [st |-> "panic"]
ParseOk(info) == [st |-> "ok", info |-> info]

\* u32::checked_mul: TRUE when the product does not fit
checked_mul_is_none(a, b) == UMul(a, b).ovf

\* A faulty validate without the check of frame_length * num_channels
validate_without_checked_mul(info) ==
    IF info.num_channels = 0
    THEN ParseErr("stream must contain one or more channels")
    ELSE IF info.bit_depth = 0
    THEN ParseErr("bit depth must be one or greater")
    ELSE ParseOk(info)

\* StreamInfo::validate
validate(info) ==
    IF info.num_channels = 0
    THEN ParseErr("stream must contain one or more channels")
    ELSE IF checked_mul_is_none(info.frame_length, info.num_channels)
    THEN ParseErr("overflow calculating max_samples_per_packet")
    ELSE IF info.bit_depth = 0
    THEN ParseErr("bit depth must be one or greater")
    ELSE ParseOk(info)

Frma == <<102, 114, 109, 97>>
Alac == <<97, 108, 97, 99>>

\* cookie[a..] of a slice, 0-based
SliceFrom(c, a) == SubSeq(c, a + 1, Len(c))
\* cookie[a..b] of a slice, 0-based, b exclusive
Slice(c, a, b) == SubSeq(c, a + 1, b)

\* whether cookie[a..b] is inside the slice
SliceOk(c, a, b) == a <= b /\ b <= Len(c)

\* from_cookie, the ALACSpecificConfig read from the stripped cookie
ReadConfig(cookie) ==
    IF Len(cookie) < 24
    THEN ParseErr("magic cookie is not the correct length")
    ELSE validate(
           [frame_length       |-> read_be_u32(Slice(cookie, 0, 4)),
            compatible_version |-> cookie[5],
            bit_depth          |-> cookie[6],
            pb                 |-> cookie[7],
            mb                 |-> cookie[8],
            kb                 |-> cookie[9],
            num_channels       |-> cookie[10],
            max_run            |-> read_be_u16(Slice(cookie, 10, 12)),
            max_frame_bytes    |-> read_be_u32(Slice(cookie, 12, 16)),
            avg_bit_rate       |-> read_be_u32(Slice(cookie, 16, 20)),
            sample_rate        |-> read_be_u32(Slice(cookie, 20, 24))])

\* A faulty atom skip that drops the atom's eight-byte header only
SkipAtomHeader(cookie, name) ==
    IF ~SliceOk(cookie, 4, 8) THEN [st |-> "panic", cookie |-> cookie]
    ELSE IF Slice(cookie, 4, 8) # name THEN [st |-> "ok", cookie |-> cookie]
    ELSE [st |-> "ok", cookie |-> SliceFrom(cookie, 8)]

\* from_cookie, one atom skipped if present: the cookie without its first
\* twelve bytes when bytes [4..8] are the atom's name; an index outside the
\* slice panics
SkipAtom(cookie, name) ==
    IF ~SliceOk(cookie, 4, 8) THEN [st |-> "panic", cookie |-> cookie]
    ELSE IF Slice(cookie, 4, 8) # name THEN [st |-> "ok", cookie |-> cookie]
    ELSE IF ~SliceOk(cookie, 12, Len(cookie)) THEN [st |-> "panic", cookie |-> cookie]
    ELSE [st |-> "ok", cookie |-> SliceFrom(cookie, 12)]

\* from_cookie after the 'alac' atom header was skipped
AfterAlac(s) ==
    IF s.st = "panic" THEN ParsePanic ELSE ReadConfig(s.cookie)

\* from_cookie after the 'frma' atom was skipped
AfterFrma(s) ==
    IF s.st = "panic" THEN ParsePanic ELSE AfterAlac(SkipAtom(s.cookie, Alac))

\* StreamInfo::from_cookie
from_cookie(cookie) ==
    IF Len(cookie) < 24 THEN ParseErr("magic cookie is not the correct length")
    ELSE AfterFrma(SkipAtom(cookie, Frma))

\* A text is a sequence of one-character strings.
Whitespace == {" ", "\t", "\n"}
DigitChars == <<"0", "1", "2", "3", "4", "5", "6", "7", "8", "9">>
IsDigit(ch) == \E i \in 1..10 : DigitChars[i] = ch
DigitVal(ch) == (CHOOSE i \in 1..10 : DigitChars[i] = ch) - 1

\* str::split_whitespace: the maximal runs of non-whitespace characters
RECURSIVE SplitFrom(_, _, _, _)
SplitFrom(text, i, tok, acc) ==
    IF i > Len(text)
    THEN (IF tok = <<>> THEN acc ELSE Append(acc, tok))
    ELSE SplitFrom(text, i + 1,
                   IF text[i] \in Whitespace THEN <<>> ELSE Append(tok, text[i]),
                   IF text[i] \in Whitespace /\ tok # <<>> THEN Append(acc, tok) ELSE acc)

split_whitespace(text) == SplitFrom(text, 1, <<>>, <<>>)

\* The digits of an unsigned FromStr: a leading "+" is dropped unless it is
\* the whole token; a "-" is no digit of an unsigned type.
StripPlus(tok) == IF Len(tok) > 1 /\ tok[1] = "+" THEN Tail(tok) ELSE tok

NotANumber == [ok |-> FALSE, val |-> 0]

\* <u8|u16 as FromStr>::from_str: digit by digit, checked_mul(10) then
\* checked_add(digit), failing above max
RECURSIVE ParseSmallFrom(_, _, _, _)
ParseSmallFrom(d, i, acc, max) ==
    IF i > Len(d) THEN [ok |-> TRUE, val |-> acc]
    ELSE IF ~IsDigit(d[i]) THEN NotANumber
    ELSE IF acc * 10 > max \/ acc * 10 + DigitVal(d[i]) > max THEN NotANumber
    ELSE ParseSmallFrom(d, i + 1, acc * 10 + DigitVal(d[i]), max)

ParseSmall(tok, max) ==
    IF tok = <<>> THEN NotANumber
    ELSE ParseSmallFrom(StripPlus(tok), 1, 0, max)

\* <u32 as FromStr>::from_str: m is checked_mul(10) of the digits so far,
\* a is checked_add of the next digit
RECURSIVE ParseU32From(_, _, _)
RECURSIVE ParseU32Mul(_, _, _)
RECURSIVE ParseU32Add(_, _, _)
ParseU32From(d, i, acc) ==
    IF i > Len(d) THEN [ok |-> TRUE, val |-> acc]
    ELSE IF ~IsDigit(d[i]) THEN NotANumber
    ELSE ParseU32Mul(d, i, UMul(acc, 10))
ParseU32Mul(d, i, m) ==
    IF m.ovf THEN NotANumber
    ELSE ParseU32Add(d, i, UAdd(m.val, DigitVal(d[i])))
ParseU32Add(d, i, a) ==
    IF a.ovf THEN NotANumber
    ELSE ParseU32From(d, i + 1, a.val)

ParseU32(tok) ==
    IF tok = <<>> THEN NotANumber
    ELSE ParseU32From(StripPlus(tok), 1, 0)

\* The field types of StreamInfo in declaration order: 32 = u32, else the
\* largest value of the u8 or u16
FieldMax == <<32, 255, 255, 255, 255, 255, 255, 65535, 32, 32, 32>>

\* from_sdp_format_parameters::parse of params.next(), the k-th token
parse(toks, k) ==
    IF k > Len(toks) THEN [ok |-> FALSE, val |-> 0, msg |-> "too few sdp format parameters"]
    ELSE IF FieldMax[k] = 32
    THEN ParseU32(toks[k]) @@ [msg |-> "invalid sdp format parameter"]
    ELSE ParseSmall(toks[k], FieldMax[k]) @@ [msg |-> "invalid sdp format parameter"]

\* The struct literal of from_sdp_format_parameters: the fields parsed in
\* declaration order, the first failure returning (the ? operator)
RECURSIVE ParseFields(_, _, _)
RECURSIVE ParseField(_, _, _, _)
ParseFields(toks, k, vals) ==
    IF k > 11 THEN [ok |-> TRUE, vals |-> vals, msg |-> ""]
    ELSE ParseField(toks, k, vals, parse(toks, k))
ParseField(toks, k, vals, p) ==
    IF ~p.ok THEN [ok |-> FALSE, vals |-> vals, msg |-> p.msg]
    ELSE ParseFields(toks, k + 1, Append(vals, p.val))

\* from_sdp_format_parameters after the struct literal
AfterFields(toks, f) ==
    IF ~f.ok THEN ParseErr(f.msg)
    ELSE IF Len(toks) > 11 THEN ParseErr("too many sdp format parameters")
    ELSE validate(
           [frame_length       |-> f.vals[1],
            compatible_version |-> f.vals[2],
            bit_depth          |-> f.vals[3],
            pb                 |-> f.vals[4],
            mb                 |-> f.vals[5],
            kb                 |-> f.vals[6],
            num_channels       |-> f.vals[7],
            max_run            |-> f.vals[8],
            max_frame_bytes    |-> f.vals[9],
            avg_bit_rate       |-> f.vals[10],
            sample_rate        |-> f.vals[11]])

\* from_sdp_format_parameters over the tokens of split_whitespace
FromTokens(toks) == AfterFields(toks, ParseFields(toks, 1, <<>>))

\* StreamInfo::from_sdp_format_parameters
from_sdp_format_parameters(text) == FromTokens(split_whitespace(text))

\* max_samples_per_packet of the product m: an overflowing product panics
\* with overflow checks on and wraps without
MulOrPanic(m) ==
    IF m.ovf /\ debug THEN [st |-> "panic", val |-> 0]
    ELSE [st |-> "ok", val |-> m.val]

\* StreamInfo::max_samples_per_packet: frame_length * num_channels as u32
max_samples_per_packet(info) ==
    MulOrPanic(UMul(info.frame_length, info.num_channels))


---------------------------------------------------------------------------
(* Two's-complement arithmetic of dec.rs.  An arithmetic result is the     *)
(* wrapped value with a flag telling whether the exact result was out of   *)
(* range: the build with overflow checks panics on the flag, the build     *)
(* without them goes on with the wrapped value.                            *)

MaxI32 == 2147483647
MinI32 == -MaxI32 - 1

Signum(a) == IF a > 0 THEN 1 ELSE IF a < 0 THEN -1 ELSE 0

\* a + b on i32
IAdd(a, b) ==
    IF a > 0 /\ b > 0 /\ a > MaxI32 - b
    THEN [val |-> (a + MinI32) + (b + MinI32), ovf |-> TRUE]
    ELSE IF a < 0 /\ b < 0 /\ a < MinI32 - b
    THEN [val |-> (a - MinI32) + (b - MinI32), ovf |-> TRUE]
    ELSE [val |-> a + b, ovf |-> FALSE]

\* a - b on i32
ISub(a, b) ==
    IF a >= 0 /\ b < 0 /\ a > MaxI32 + b
    THEN [val |-> (a + MinI32) - (b - MinI32), ovf |-> TRUE]
    ELSE IF a < 0 /\ b > 0 /\ a < MinI32 + b
    THEN [val |-> (a - MinI32) - (b + MinI32), ovf |-> TRUE]
    ELSE [val |-> a - b, ovf |-> FALSE]

\* the i32 whose exact value is h * 2^16 + l, for l below 2^31 in size
IMulOf(h, l) ==
    [val |-> Mk((h + l \div U16) % U16, l % U16),
     ovf |-> ~(h + l \div U16 \in -32768..32767)]

\* a * c on i32, for a multiplier c of at most 2^15 in size (an i16, an i8,
\* a sign, a coefficient index)
IMul(a, c) == IMulOf((a \div U16) * c, (a % U16) * c)

\* a >> n on i32 (arithmetic), 0 <= n < 32
IShr(a, n) == IF n >= 31 THEN (IF a < 0 THEN -1 ELSE 0) ELSE a \div Pow2(n)

\* a - b on u32
USubOf(l, h) == [val |-> Mk(h % U16, l % U16), ovf |-> h < 0]
USub(a, b) ==
    USubOf(Lo(a) - Lo(b), UHi(a) - UHi(b) - (IF Lo(a) < Lo(b) THEN 1 ELSE 0))

\* a & b on words
WAnd(a, b) == Mk(BitAnd(UHi(a), UHi(b)), BitAnd(Lo(a), Lo(b)))

\* x + y on u8 and x - y on u8
U8Add(x, y) == [val |-> (x + y) % U8, ovf |-> x + y >= U8]
U8Sub(x, y) == [val |-> (x - y) % U8, ovf |-> x < y]

\* u32::leading_zeros
leading_zeros(w) ==
    IF w < 0 THEN 0
    ELSE IF w = 0 THEN 32
    ELSE 32 - CHOOSE n \in 1..31 : Pow2(n - 1) <= w /\ (n = 31 \/ w < Pow2(n))

\* rice_decompress::log_2
log_2(x) == 31 - leading_zeros(WOr(x, 1))

\* (1 << k) - 1 on u32 for a shift 0 <= k < 32
Mask(k) == IF k >= 31 THEN MaxI32 ELSE Pow2(k) - 1

\* a u32 above 0xffff
Above16(w) == w < 0 \/ w > 65535

\* a u32 not above the (small) natural n, as that natural, else n + 1
Clamp(w, n) == IF w < 0 \/ w > n THEN n + 1 ELSE w

---------------------------------------------------------------------------
(* dec.rs                                                                  *)

ID_SCE == 0
ID_CPE == 1
ID_CCE == 2
ID_LFE == 3
ID_DSE == 4
ID_PCE == 5
ID_FIL == 6
ID_END == 7

\* i16::bits() and i32::bits()
SampleBits == {16, 32}

\* A faulty conversion that leaves an i32 sample right-aligned
from_decoder_right_aligned(sample, bits, S) ==
    IF S = 16
    THEN (IF Lo(sample) >= 32768 THEN Lo(sample) - U16 ELSE Lo(sample))
    ELSE sample

\* <i16 as Sample>::from_decoder and <i32 as Sample>::from_decoder; S is
\* S::bits()
from_decoder(sample, bits, S) ==
    IF S = 16
    THEN (IF Lo(sample) >= 32768 THEN Lo(sample) - U16 ELSE Lo(sample))
    ELSE WShl(sample, (32 - bits) % 32)

\* Decoder::new: the scratch buffer of 2 * frame_length zeros
DecoderNew(info) == [i \in 1..(2 * info.frame_length) |-> 0]

(* A function of dec.rs is modelled on a frame: a record of its locals     *)
(* with the status st ("ok" while it runs on, "err" with the InvalidData   *)
(* message msg once it returned Err, "panic" once it panicked).  A step of *)
(* the function maps a frame to a frame and leaves a frame that is not     *)
(* "ok" as it is, so the steps compose in program order.                   *)

Err(f, msg) == [f EXCEPT !.st = "err", !.msg = msg]
Panic(f, msg) == [f EXCEPT !.st = "panic", !.msg = msg]

\* A value met while a function ran, kept with the frame for the properties
\* stated of it: what names the place in the code, a to d are its values
Event(what, a, b, c, d) == [what |-> what, a |-> a, b |-> b, c |-> c, d |-> d]
Observe(f, what, a, b, c, d) ==
    [f EXCEPT !.obs = @ \cup {Event(what, a, b, c, d)}]

\* the ? operator on a cursor result r: NotEnoughData becomes InvalidData
Try(f, r) ==
    IF r.st = "nodata" THEN Err(f, "packet is not long enough")
    ELSE IF r.st = "panic" THEN Panic(f, "bitcursor assertion")
    ELSE [f EXCEPT !.cur = r.cur, !.v = r.val]

\* let v = reader.read_*(bits)?  (v is the frame's value register)
RdU8(f, bits) == IF f.st # "ok" THEN f ELSE Try(f, read_u8(f.cur, bits))
RdU16(f, bits) == IF f.st # "ok" THEN f ELSE Try(f, read_u16(f.cur, bits))
RdU32(f, bits) == IF f.st # "ok" THEN f ELSE Try(f, read_u32(f.cur, bits))
RdBit(f) == IF f.st # "ok" THEN f ELSE Try(f, read_bit(f.cur))
SkipBits(f, bits) == IF f.st # "ok" THEN f ELSE Try(f, skip(f.cur, bits))
SkipToByteBoundary(f) == IF f.st # "ok" THEN f ELSE Try(f, skip_to_byte(f.cur))

\* a local of the frame takes the value register
Let(f, local) == IF f.st # "ok" THEN f ELSE [f EXCEPT ![local] = f.v]

\* an arithmetic result x: a panic with overflow checks on, else its
\* wrapped value in the value register
Checked(f, x, what) ==
    IF f.st # "ok" THEN f
    ELSE IF debug /\ x.ovf THEN Panic(f, what)
    ELSE [f EXCEPT !.v = x.val]

\* a shift by n of a 32-bit value: a panic with overflow checks on when
\* n >= 32, else the shift amount n mod 32 in the value register
ShiftAmount(f, n) ==
    IF f.st # "ok" THEN f
    ELSE IF debug /\ n >= 32 THEN Panic(f, "shift overflow")
    ELSE [f EXCEPT !.v = n % 32]

\* decode_rice_symbol: while q != 9 && reader.read_bit()? == true { q += 1 }
RECURSIVE ReadUnary(_)
RECURSIVE UnaryBit(_)
ReadUnary(f) ==
    IF f.st # "ok" \/ f.q = 9 THEN f ELSE UnaryBit(RdBit(f))
UnaryBit(f) ==
    IF f.st # "ok" \/ f.v = 0 THEN f ELSE ReadUnary([f EXCEPT !.q = f.q + 1])

\* decode_rice_symbol: r = (r << 1) + extra_bit - 1
RiceExtraBit(f) ==
    IF f.st # "ok" THEN f ELSE [f EXCEPT !.r = 2 * f.r + f.v - 1]

\* the remainder taken as read, without the extra bit
RiceRemainderWithoutExtraBit(f) ==
    IF f.st # "ok" THEN f ELSE [f EXCEPT !.r = f.v]

\* decode_rice_symbol: if r > 0 { let extra_bit = reader.read_bit()? ... }
RiceRemainder(f) ==
    IF f.st # "ok" THEN f
    ELSE IF f.v = 0 THEN [f EXCEPT !.r = 0]
    ELSE RiceExtraBit(RdBit([f EXCEPT !.r = f.v]))

\* decode_rice_symbol: s = q * m + r
RiceSum(f) == Checked(f, UAdd(f.v, f.r), "q * m + r")
RiceProduct(f, m) == RiceSum(Checked(f, UMul(m, f.q), "q * m"))

\* decode_rice_symbol after the unary part: the k - 1 of a k of zero wraps
\* to usize::MAX without overflow checks, for which MaxI32 stands
RiceValue(f, m, k, bps) ==
    IF f.st # "ok" THEN f
    ELSE IF f.q = 9 THEN RdU32(f, bps)
    ELSE IF k = 1 THEN [f EXCEPT !.v = f.q]
    ELSE RiceProduct(RiceRemainder(RdU32(f, IF k = 0 THEN MaxI32 ELSE k - 1)), m)

\* the bits between cursor c and the end of its slice
Remaining(c) == 8 * Len(c.buf) + c.current_len - c.current_pos

\* decode_rice_symbol returned Ok: the symbol and the reader it leaves, for
\* the call that began with before bits to go
RiceReturned(f, before) ==
    IF f.st # "ok" THEN f
    ELSE Observe(f, "rice_symbol_ok", before, f.v, Remaining(f.cur), 0)

\* decode_rice_symbol: the symbol is left in the value register
RiceSymbol(f, m, k, bps) ==
    IF debug /\ k = 0 THEN Panic(f, "debug_assert!(k != 0)")
    ELSE RiceReturned(RiceValue(ReadUnary([f EXCEPT !.q = 0]), m, k, bps),
                      Remaining(f.cur))
decode_rice_symbol(f, m, k, bps) ==
    IF f.st # "ok" THEN f
    ELSE RiceSymbol(Observe(f, "rice_symbol", Remaining(f.cur), m, k, bps),
                    m, k, bps)

\* rice_decompress: k = min(log_2((rice_history >> 9) + 3) as u8, k_max);
\* m = (1 << k) - 1
RiceParameter(f) ==
    IF f.st # "ok" THEN f
    ELSE [f EXCEPT
            !.k = Min(log_2(UAdd(UShr(f.rice_history, 9), 3).val), config.kb),
            !.m = Mask(Min(log_2(UAdd(UShr(f.rice_history, 9), 3).val), config.kb))]

\* the main symbol of a round is decoded with the frame's m and k
MainSymbol(f) ==
    IF f.st # "ok" THEN f
    ELSE Observe(f, "main_symbol", f.rice_history, f.k, f.m, 0)

\* rice_decompress: buf[i] = ((val >> 1) as i32) ^ -((val & 1) as i32)
StoreSample(f) ==
    IF f.st # "ok" THEN f
    ELSE [f EXCEPT !.val = f.v,
                   !.sign_modifier = 0,
                   !.w[Len(f.w)] = Append(@, [at |-> f.i, zero |-> FALSE]),
                   !.b[f.i + 1] = IF Lo(f.v) % 2 = 1
                                  THEN -UShr(f.v, 1) - 1
                                  ELSE UShr(f.v, 1)]

\* rice_decompress: rice_history = (rice_history + val * rice_history_mult)
\*                                 - ((rice_history * rice_history_mult) >> 9)
History4(f) ==
    Let(Checked(f, USub(f.x, UShr(f.y, 9)), "rice_history -"), "rice_history")
History3(f, mult) ==
    History4(Let(Checked(f, UMul(f.rice_history, mult),
                         "rice_history * rice_history_mult"), "y"))
History2(f, mult) ==
    History3(Let(Checked(f, UAdd(f.rice_history, f.v), "rice_history +"), "x"), mult)
History(f, mult) ==
    IF f.st # "ok" THEN f
    ELSE IF Above16(f.val) THEN [f EXCEPT !.rice_history = 65535]
    ELSE History2(Checked(Observe(f, "history", f.rice_history, f.val, mult, 0),
                          UMul(f.val, mult), "val * rice_history_mult"), mult)

\* the zero block that leaves buf as it is, as if buf were all zeros
ZeroFillWithoutZeros(f) ==
    IF f.st # "ok" THEN f
    ELSE IF f.v = 0 THEN [f EXCEPT !.sign_modifier = 1, !.rice_history = 0]
    ELSE IF Clamp(f.v, Len(f.b)) >= Len(f.b) - f.i
    THEN Err(f, "zero block contains too many samples for channel")
    ELSE [f EXCEPT !.w[Len(f.w)] = @ \o [n \in 1..f.v |->
                                           [at |-> f.i + n, zero |-> TRUE]],
                   !.i = f.i + f.v,
                   !.sign_modifier = IF Above16(f.v) THEN f.sign_modifier ELSE 1,
                   !.rice_history = 0]

\* the zero block without i += zero_block_len
ZeroFillWithoutAdvance(f) ==
    IF f.st # "ok" THEN f
    ELSE IF f.v = 0 THEN [f EXCEPT !.sign_modifier = 1, !.rice_history = 0]
    ELSE IF Clamp(f.v, Len(f.b)) >= Len(f.b) - f.i
    THEN Err(f, "zero block contains too many samples for channel")
    ELSE [f EXCEPT !.b = [n \in 1..Len(f.b) |->
                            IF n > f.i + 1 /\ n <= f.i + 1 + f.v THEN 0 ELSE f.b[n]],
                   !.w[Len(f.w)] = @ \o [n \in 1..f.v |->
                                           [at |-> f.i + n, zero |-> TRUE]],
                   !.sign_modifier = IF Above16(f.v) THEN f.sign_modifier ELSE 1,
                   !.rice_history = 0]

\* rice_decompress: the zero block of zero_block_len samples after buf[i]
ZeroFill(f) ==
    IF f.st # "ok" THEN f
    ELSE IF f.v = 0 THEN [f EXCEPT !.sign_modifier = 1, !.rice_history = 0]
    ELSE IF Clamp(f.v, Len(f.b)) >= Len(f.b) - f.i
    THEN Err(f, "zero block contains too many samples for channel")
    ELSE [f EXCEPT !.b = [n \in 1..Len(f.b) |->
                            IF n > f.i + 1 /\ n <= f.i + 1 + f.v THEN 0 ELSE f.b[n]],
                   !.w[Len(f.w)] = @ \o [n \in 1..f.v |->
                                           [at |-> f.i + n, zero |-> TRUE]],
                   !.i = f.i + f.v,
                   !.sign_modifier = IF Above16(f.v) THEN f.sign_modifier ELSE 1,
                   !.rice_history = 0]

\* the zero_block_len met at index i of a buf of Len(f.b) samples
ZeroBlockLen(f) ==
    IF f.st # "ok" THEN f
    ELSE Observe(f, "zero_block_len", f.i, f.v, Len(f.b), Len(f.w))

\* rice_decompress: wb_local = (1 << k_max) - 1; m = ((1 << k) - 1) & wb_local;
\* zero_block_len = decode_rice_symbol(reader, m, k, 16)?
ZeroLength(f) ==
    IF f.st # "ok" THEN f
    ELSE ZeroFill(ZeroBlockLen(decode_rice_symbol(f, WAnd(Mask(f.k), Mask(f.v)),
                                                  f.k, 16)))

\* rice_decompress: if (rice_history < 128) && (i + 1 < buf.len()) { ... }
\* the run parameter without its density term
ZeroRunParameterOfLeadingZeros(rice_history) ==
    leading_zeros(rice_history) - 24

\* rice_decompress: k = rice_history.leading_zeros() - 24
\*                      + ((rice_history + 16) >> 6)
ZeroRunParameter(rice_history) ==
    leading_zeros(rice_history) - 24 + ((rice_history + 16) \div 64)

ZeroRun(f) ==
    IF debug /\ f.k > config.kb
    THEN Panic(f, "k greater than rice limit")
    ELSE ZeroLength(ShiftAmount(f, config.kb))
ZeroBlock(f) ==
    IF f.st # "ok" THEN f
    ELSE IF ~(f.rice_history \in 0..127 /\ f.i + 1 < Len(f.b)) THEN f
    ELSE ZeroRun(Observe([f EXCEPT !.k = ZeroRunParameter(f.rice_history)],
                         "zero_run", f.rice_history,
                         ZeroRunParameter(f.rice_history), 0, 0))

\* rice_decompress: val = decode_rice_symbol(reader, m, k, bps)? + sign_modifier
AddSignModifier(f) == Checked(f, UAdd(f.v, f.sign_modifier), "val + sign_modifier")
RiceSample(f, bps) ==
    AddSignModifier(decode_rice_symbol(MainSymbol(f), f.m, f.k, bps))

\* rice_decompress: one round of the loop over buf
RiceRound(f, bps, mult) ==
    ZeroBlock(History(StoreSample(RiceSample(RiceParameter(f), bps)), mult))

RECURSIVE RiceLoop(_, _, _)
RiceLoop(f, bps, mult) ==
    IF f.st # "ok" \/ f.i >= Len(f.b) THEN f
    ELSE RiceLoop([RiceRound(f, bps, mult) EXCEPT !.i = @ + 1], bps, mult)

\* rice_decompress of the frame's buffer b
rice_decompress(f, bps, pb_factor) ==
    IF f.st # "ok" THEN f
    ELSE RiceLoop([f EXCEPT !.rice_history = config.mb,
                            !.sign_modifier = 0,
                            !.i = 0,
                            !.w = Append(@, <<>>)],
                  bps, (config.pb * pb_factor) \div 4)

\* sign_extend of the value register to bits bits: shift = 32 - bits;
\* (val << shift) >> shift
sign_extend(f, bits) ==
    IF f.st # "ok" THEN f
    ELSE IF debug /\ (bits > 32 \/ bits = 0)
    THEN Panic(Observe(f, "sign_extend", bits, 0, 0, 0), "sign_extend shift")
    ELSE [f EXCEPT !.v = IShr(WShl(f.v, ((32 - bits) % U8) % 32),
                              ((32 - bits) % U8) % 32),
                   !.obs = @ \cup {Event("sign_extend", bits, 0, 0, 0)}]

\* buf[i] = the value register
StoreB(f, i) == IF f.st # "ok" THEN f ELSE [f EXCEPT !.b[i + 1] = f.v]

\* for i in from..to { buf[i] = sign_extend(buf[i] + buf[i - 1], bps) }
RECURSIVE Differences(_, _, _, _)
Differences(f, i, to, bps) ==
    IF f.st # "ok" \/ i >= to THEN f
    ELSE Differences(
           StoreB(sign_extend(Checked(f, IAdd(f.b[i + 1], f.b[i]),
                                      "buf[i] + buf[i - 1]"), bps), i),
           i + 1, to, bps)

\* lpc_predict_order_31 of the frame's buffer b
lpc_predict_order_31(f, bps) == Differences(f, 1, Len(f.b), bps)

\* lpc_predict: predicted += (x - mean) * (*coef as i32), x the t-th sample
\* of the window buf[i - lpc_order .. i + 1]
Accumulate(f) == Let(Checked(f, IAdd(f.predicted, f.v), "predicted +="), "predicted")
Weigh(f, t) == Accumulate(Checked(f, IMul(f.v, f.coefs[t + 1]), "(x - mean) * coef"))
RECURSIVE Predict(_, _)
Predict(f, t) ==
    IF f.st # "ok" \/ t >= Len(f.coefs) THEN f
    ELSE Predict(Weigh(Checked(f, ISub(f.b[f.i - Len(f.coefs) + t + 1], f.mean),
                               "x - mean"), t),
                 t + 1)

\* lpc_predict: predicted = (predicted + (1 << (lpc_quant - 1))) >> lpc_quant;
\* the lpc_quant - 1 of an lpc_quant of zero wraps to a shift by 31
Quantise(f, lpc_quant) ==
    IF f.st # "ok" THEN f
    ELSE [f EXCEPT !.predicted = IShr(f.v, lpc_quant)]
Round(f, lpc_quant) ==
    IF f.st # "ok" THEN f
    ELSE IF debug /\ lpc_quant = 0 THEN Panic(f, "lpc_quant - 1")
    ELSE Quantise(Checked(f, IAdd(f.predicted,
                                  IF lpc_quant = 0 THEN MinI32 ELSE Pow2(lpc_quant - 1)),
                          "predicted + (1 << (lpc_quant - 1))"),
                  lpc_quant)

\* lpc_predict: sample = predicted + mean + prediction_error;
\* buf[lpc_order] = sign_extend(sample, bps)
AddError(f) == Checked(f, IAdd(f.v, f.prediction_error), "+ prediction_error")
Reconstruct(f, bps) ==
    StoreB(sign_extend(AddError(Checked(f, IAdd(f.predicted, f.mean),
                                        "predicted + mean")), bps), f.i)

\* i16 += sign
I16Add(a, s) == [val |-> ((a + s + 32768) % U16) - 32768,
                 ovf |-> ~(a + s \in -32768..32767)]

\* lpc_predict, the adaptation of coefficient j:
\*   let predicted = buf[j] - mean;
\*   let sign = predicted.signum() * error_sign;
\*   lpc_coefs[j] += sign as i16;
\*   prediction_error -= error_sign * (predicted * sign >> lpc_quant) * (j as i32 + 1);
Adapt6(f) == Let(Checked(f, ISub(f.pe, f.v), "prediction_error -="), "pe")
Adapt5(f, j) == Adapt6(Checked(f, IMul(f.v, j + 1), "* (j + 1)"))
Adapt4(f, j, lpc_quant) ==
    Adapt5(Checked(f, IMul(IShr(f.v, lpc_quant), f.error_sign), "error_sign *"), j)
Adapt3(f, j, lpc_quant) ==
    IF f.st # "ok" THEN f
    ELSE Adapt4(Checked(Observe([f EXCEPT !.coefs[j + 1] = f.v],
                                "adapted", j, f.coefs[j + 1], f.sign, f.v),
                        IMul(f.pr, f.sign), "predicted * sign"), j, lpc_quant)
Adapt2(f, j, lpc_quant) ==
    IF f.st # "ok" THEN f
    ELSE Adapt3(Checked(Observe([f EXCEPT !.pr = f.v,
                                          !.sign = Signum(f.v) * f.error_sign],
                                "adapt", j, f.coefs[j + 1],
                                Signum(f.v) * f.error_sign, 0),
                        I16Add(f.coefs[j + 1], Signum(f.v) * f.error_sign),
                        "lpc_coefs[j] +="), j, lpc_quant)
AdaptCoef(f, j, lpc_quant) ==
    Adapt2(Checked(f, ISub(f.b[f.i - Len(f.coefs) + j + 1], f.mean), "buf[j] - mean"),
           j, lpc_quant)

\* lpc_predict: for j in 0..lpc_order { ...; if prediction_error <= 0 { break; } }
RECURSIVE Adapt(_, _, _)
RECURSIVE AdaptNext(_, _, _)
Adapt(f, j, lpc_quant) ==
    IF f.st # "ok" \/ j >= Len(f.coefs) THEN f
    ELSE AdaptNext(AdaptCoef(f, j, lpc_quant), j, lpc_quant)
AdaptNext(f, j, lpc_quant) ==
    IF f.st # "ok" \/ f.pe <= 0 THEN f ELSE Adapt(f, j + 1, lpc_quant)

\* lpc_predict: if prediction_error != 0 { ... }
AdaptFrom(f, lpc_quant) == Adapt(Let(f, "pe"), 0, lpc_quant)
Correct(f, lpc_quant) ==
    IF f.st # "ok" \/ f.prediction_error = 0 THEN f
    ELSE AdaptFrom(Checked(f, IMul(f.prediction_error, Signum(f.prediction_error)),
                           "error_sign * prediction_error"),
                   lpc_quant)

\* lpc_predict: one round of the loop for i in (lpc_order + 1)..buf.len()
PredictSample(f, bps, lpc_quant) ==
    Correct(Reconstruct(Round(Predict(
        [f EXCEPT !.mean = f.b[f.i - Len(f.coefs)],
                  !.predicted = 0,
                  !.prediction_error = f.b[f.i + 1],
                  !.error_sign = Signum(f.b[f.i + 1])],
        0), lpc_quant), bps), lpc_quant)

RECURSIVE PredictLoop(_, _, _)
PredictLoop(f, bps, lpc_quant) ==
    IF f.st # "ok" \/ f.i >= Len(f.b) THEN f
    ELSE PredictLoop([PredictSample(f, bps, lpc_quant) EXCEPT !.i = @ + 1],
                     bps, lpc_quant)

\* lpc_predict of the frame's buffer b with the frame's coefficients coefs
PredictFrom(f, bps, lpc_quant) ==
    IF f.st # "ok" THEN f
    ELSE PredictLoop([f EXCEPT !.i = Len(f.coefs) + 1], bps, lpc_quant)
lpc_predict(f, bps, lpc_quant) ==
    IF f.st # "ok" THEN f
    ELSE PredictFrom(Differences(f, 1, Min(Len(f.coefs) + 1, Len(f.b)), bps),
                     bps, lpc_quant)

\* unmix_stereo: r = u - ((v * mix_res) >> mix_bits); l = r + v
Unmix4(f, i) ==
    IF f.st # "ok" THEN f
    ELSE [f EXCEPT !.mix_buf[1][i + 1] = f.v, !.mix_buf[2][i + 1] = f.x]
Unmix3(f, i) ==
    Unmix4(Checked(Let(f, "x"), IAdd(f.v, f.mix_buf[2][i + 1]), "r + v"), i)
Unmix2(f, i) ==
    Unmix3(Checked(f, ISub(f.mix_buf[1][i + 1], IShr(f.x, f.v)), "u -"), i)
Unmix1(f, i) == Unmix2(ShiftAmount(Let(f, "x"), f.mix_bits), i)
RECURSIVE Unmix(_, _)
Unmix(f, i) ==
    IF f.st # "ok" \/ i >= f.num_samples THEN f
    ELSE Unmix(Unmix1(Checked(f, IMul(f.mix_buf[2][i + 1], f.mix_res), "v * mix_res"),
                      i),
               i + 1)
unmix_stereo(f) == Unmix(f, 0)

\* append_extra_bits: buf[j][i] = (buf[j][i] << sample_shift) | extra_bits,
\* for the t-th pair (i, j) in the order of the loops; the frame's cursor is
\* the clone taken before the extra bits were skipped
ExtraBits(f, i, j) ==
    IF f.st # "ok" THEN f
    ELSE [f EXCEPT !.mix_buf[j + 1][i + 1] = WOr(WShl(@, f.sample_shift), f.v),
                   !.obs = @ \cup
                       {Event("extra_bits", i, j, f.v, Remaining(f.cur)),
                        Event("extra_store", i, j, f.mix_buf[j + 1][i + 1],
                              WOr(WShl(f.mix_buf[j + 1][i + 1], f.sample_shift), f.v))}]
RECURSIVE AppendExtra(_, _, _)
AppendExtra(f, t, channels) ==
    IF f.st # "ok" \/ t >= f.num_samples * channels THEN f
    ELSE AppendExtra(ExtraBits(RdU16(Observe(f, "extra_at", t, Remaining(f.cur),
                                             channels, 0),
                                     f.sample_shift),
                               t \div channels, t % channels),
                     t + 1, channels)

\* append_extra_bits returned: the clone it read with goes out of scope and
\* the frame has the reader of decode_audio_element again
ExtraBitsDone(f, reader_cur) ==
    IF f.st # "ok" THEN [f EXCEPT !.cur = reader_cur]
    ELSE Observe([f EXCEPT !.cur = reader_cur], "extra_done",
                 Remaining(f.cur), Remaining(reader_cur), 0, 0)
append_extra_bits(f, channels) ==
    IF f.st # "ok" THEN f
    ELSE ExtraBitsDone(
           AppendExtra(Observe([f EXCEPT !.cur = f.extra], "extra_begin",
                               Remaining(f.extra), Remaining(f.cur), 0, 0),
                       0, Min(channels, 2)),
           f.cur)

\* The frame of decode_audio_element at its entry: the reader, the output
\* slice, and the locals of the function and of the functions it calls.
\* wrote and chans record what the element stored: the positions of out it
\* wrote and, per element channel, the samples it stored in order; obs
\* records the values the element computed on the way (see Observe); w
\* records, per call of rice_decompress, the indices of buf it assigned.
Frame(cur, o) ==
    [st |-> "ok", msg |-> "", cur |-> cur, extra |-> cur, v |-> 0, x |-> 0, y |-> 0,
     out |-> o, wrote |-> {}, chans |-> <<<<>>, <<>>>>, obs |-> {}, w |-> <<>>,
     partial_frame |-> 0, sample_shift |-> 0, is_uncompressed |-> 0,
     num_samples |-> 0, chan_bits |-> 0, mix_bits |-> 0, mix_res |-> 0,
     lpc_mode |-> <<0, 0>>, lpc_quant |-> <<0, 0>>, pb_factor |-> <<0, 0>>,
     lpc_order |-> <<0, 0>>, lpc_coefs |-> <<<<>>, <<>>>>,
     mix_buf |-> <<<<>>, <<>>>>, b |-> <<>>, coefs |-> <<>>,
     q |-> 0, r |-> 0, k |-> 0, m |-> 0, val |-> 0, rice_history |-> 0,
     sign_modifier |-> 0, i |-> 0, mean |-> 0, predicted |-> 0,
     prediction_error |-> 0, error_sign |-> 0, pe |-> 0, pr |-> 0, sign |-> 0]

\* decode_audio_element: if unused != 0 { return Err(..) }
Unused(f) ==
    IF f.st # "ok" THEN f
    ELSE IF f.v # 0 THEN Err(f, "unused channel header bits must be zero")
    ELSE f

\* decode_audio_element: sample_shift = sample_shift_bytes * 8
SampleShift(f) ==
    IF f.st # "ok" THEN f
    ELSE IF f.v > 2 THEN Err(f, "channel sample shift must not be greater than 16")
    ELSE [f EXCEPT !.sample_shift = f.v * 8]

\* decode_audio_element: the num_samples read from a partial frame
PartialSamples(f) ==
    IF f.st # "ok" THEN f
    ELSE IF Clamp(f.v, config.frame_length) > config.frame_length
    THEN Err(f, "channel contains more samples than expected")
    ELSE [f EXCEPT !.num_samples = f.v]

\* decode_audio_element: let num_samples = if partial_frame { .. } else { .. }
NumSamples(f) ==
    IF f.st # "ok" THEN f
    ELSE IF f.partial_frame = 1 THEN PartialSamples(RdU32(f, 32))
    ELSE [f EXCEPT !.num_samples = config.frame_length]

\* decode_audio_element, the element header
Header(f) ==
    NumSamples(Let(RdBit(SampleShift(RdU8(
        Let(RdBit(Unused(RdU16(RdU8(f, 4), 12))), "partial_frame"),
        2))), "is_uncompressed"))

\* decode_audio_element: mix_buf = [&mut buf_u[..num_samples], &mut buf_v[..num_samples]]
MixBuf(f) ==
    IF f.st # "ok" THEN f
    ELSE [f EXCEPT !.mix_buf =
            <<SubSeq(buf, 1, f.num_samples),
              SubSeq(buf, config.frame_length + 1,
                     config.frame_length + f.num_samples)>>]

\* decode_audio_element:
\* chan_bits = bit_depth - sample_shift + element_channels - 1
ChanBitsLimit(f) ==
    IF f.st # "ok" THEN f
    ELSE IF f.v > 32 THEN Err(f, "channel bit depth cannot be greater than 32")
    ELSE Observe([f EXCEPT !.chan_bits = f.v], "chan_bits", f.v, 0, 0, 0)
ChanBitsLess1(f) == ChanBitsLimit(Checked(f, U8Sub(f.v, 1), "chan_bits - 1"))
ChanBitsPlus(f, element_channels) ==
    ChanBitsLess1(Checked(f, U8Add(f.v, element_channels), "+ element_channels"))
ChanBits(f, element_channels) ==
    IF f.st # "ok" THEN f
    ELSE ChanBitsPlus(Checked(Observe(f, "compressed", f.sample_shift,
                                      element_channels, 0, 0),
                              U8Sub(config.bit_depth, f.sample_shift),
                              "bit_depth - sample_shift"),
                      element_channels)

\* decode_audio_element: mix_bits = read_u8(8)?; mix_res = read_u8(8)? as i8
MixRes(f) ==
    IF f.st # "ok" THEN f
    ELSE [f EXCEPT !.mix_res = IF f.v >= 128 THEN f.v - U8 ELSE f.v]
MixParams(f) == MixRes(RdU8(Let(RdU8(f, 8), "mix_bits"), 8))

\* local[ch] takes the value register
SetAt(f, local, ch) ==
    IF f.st # "ok" THEN f ELSE [f EXCEPT ![local][ch + 1] = f.v]

\* decode_audio_element: lpc_coefs[i][j] = reader.read_u16(16)? as i16,
\* for j in (0..lpc_order[i]).rev()
Coef(f, ch, j) ==
    IF f.st # "ok" THEN f
    ELSE [f EXCEPT !.lpc_coefs[ch + 1][j + 1] = IF f.v >= 32768 THEN f.v - U16 ELSE f.v]
RECURSIVE Coefs(_, _, _)
Coefs(f, ch, j) ==
    IF f.st # "ok" \/ j < 0 THEN f
    ELSE Coefs(Coef(RdU16(f, 16), ch, j), ch, j - 1)
CoefsOf(f, ch) ==
    IF f.st # "ok" THEN f
    ELSE Coefs([f EXCEPT !.lpc_coefs[ch + 1] = [n \in 1..f.lpc_order[ch + 1] |-> 0]],
               ch, f.lpc_order[ch + 1] - 1)

\* decode_audio_element: the parameters of element channel ch
ChannelParams(f, ch) ==
    CoefsOf(SetAt(RdU8(SetAt(RdU8(SetAt(RdU8(SetAt(RdU8(f, 4),
        "lpc_mode", ch), 4), "lpc_quant", ch), 3), "pb_factor", ch), 5),
        "lpc_order", ch), ch)
RECURSIVE Params(_, _, _)
Params(f, ch, element_channels) ==
    IF f.st # "ok" \/ ch >= element_channels THEN f
    ELSE Params(ChannelParams(f, ch), ch + 1, element_channels)

\* the reader skipped the extra bits its clone is at
ExtraSkipped(f, element_channels) ==
    IF f.st # "ok" THEN f
    ELSE Observe(f, "extra_skip", Remaining(f.extra), Remaining(f.cur),
                 f.sample_shift, f.num_samples * element_channels)

\* let extra_bits_reader = reader.clone()
CloneReader(f) == IF f.st # "ok" THEN f ELSE [f EXCEPT !.extra = f.cur]

\* the clone taken after the skip
ExtraBitsReaderAfterSkip(f, element_channels) ==
    IF f.st # "ok" \/ f.sample_shift = 0 THEN f
    ELSE ExtraSkipped(
           CloneReader(SkipBits(f, f.sample_shift * f.num_samples
                                   * element_channels)),
           element_channels)

\* decode_audio_element: the clone of the reader at the extra bits, which
\* the reader skips
ExtraBitsReader(f, element_channels) ==
    IF f.st # "ok" \/ f.sample_shift = 0 THEN f
    ELSE ExtraSkipped(
           SkipBits(CloneReader(f),
                    f.sample_shift * f.num_samples * element_channels),
           element_channels)

\* mix_buf[ch] is the buffer b the channel was decoded in
StoreBack(f, ch) == [f EXCEPT !.mix_buf[ch + 1] = f.b]

\* decode_audio_element: assert!(lpc_order[i] != 31); lpc_predict(..)
LpcPredict(f, ch) ==
    IF f.st # "ok" THEN f
    ELSE IF f.lpc_order[ch + 1] = 31 THEN Panic(f, "assert!(lpc_order[i] != 31)")
    ELSE lpc_predict(Observe([f EXCEPT !.coefs = f.lpc_coefs[ch + 1]],
                             "lpc_predict", ch, f.chan_bits,
                             f.lpc_quant[ch + 1], Len(f.lpc_coefs[ch + 1])),
                     f.chan_bits, f.lpc_quant[ch + 1])

\* decode_audio_element: if lpc_mode[i] == 15 { lpc_predict_order_31(..) }
\* else if lpc_mode[i] > 0 { return Err(..) }
LpcMode(f, ch) ==
    IF f.st # "ok" THEN f
    ELSE IF f.lpc_mode[ch + 1] = 15
    THEN lpc_predict_order_31(Observe(f, "lpc_predict_order_31", ch, f.chan_bits, 0, 0),
                              f.chan_bits)
    ELSE IF f.lpc_mode[ch + 1] > 0 THEN Err(f, "invalid lpc mode")
    ELSE f

\* the channel's rice_decompress returned Ok
RiceDecoded(f, ch) ==
    IF f.st # "ok" THEN f
    ELSE Observe(f, "decoded", ch, f.lpc_mode[ch + 1], f.lpc_order[ch + 1], 0)

\* decode_audio_element: one round of the loop that decodes the channels
Channel(f, ch) ==
    StoreBack(LpcPredict(LpcMode(RiceDecoded(
        rice_decompress(Observe([f EXCEPT !.b = f.mix_buf[ch + 1]], "rice_decompress",
                                ch, f.chan_bits, f.lpc_mode[ch + 1], f.lpc_order[ch + 1]),
                        f.chan_bits, f.pb_factor[ch + 1]), ch), ch), ch), ch)
RECURSIVE Channels(_, _, _)
Channels(f, ch, element_channels) ==
    IF f.st # "ok" \/ ch >= element_channels THEN f
    ELSE Channels(Channel(f, ch), ch + 1, element_channels)

\* decode_audio_element: if element_channels == 2 && mix_res != 0 { .. }
Unmixed(f, element_channels) ==
    IF f.st # "ok" \/ element_channels # 2 \/ f.mix_res = 0 THEN f
    ELSE unmix_stereo(f)

\* decode_audio_element: if let Some(extra_bits_reader) = .. { .. }
ExtraAppended(f, element_channels) ==
    IF f.st # "ok" \/ f.sample_shift = 0 THEN f
    ELSE append_extra_bits(f, element_channels)

\* A faulty index that lays the channels out one after the other
SampleIndexPlanar(i, j) ==
    (channel_index + j) * config.frame_length + i
\* decode_audio_element: idx = i * num_channels + channel_index + j
SampleIndex(i, j) ==
    i * config.num_channels + channel_index + j

\* decode_audio_element: out[idx] = S::from_decoder(sample, bit_depth), the
\* sample being the value register
Store(f, idx, j, s) ==
    IF idx >= Len(f.out) THEN Panic(f, "index out of bounds")
    ELSE [f EXCEPT !.out[idx + 1] = s,
                   !.wrote = @ \cup {idx},
                   !.chans[j + 1] = Append(@, s),
                   !.obs = @ \cup {Event("store", f.v, s, 0, 0)}]
StoreOut(f, i, j) ==
    IF f.st # "ok" THEN f
    ELSE Store(f, SampleIndex(i, j), j,
               from_decoder(f.v, config.bit_depth, sbits))

\* decode_audio_element: the output loops of a compressed element; t counts
\* the rounds of the inner loop
RECURSIVE CopyOut(_, _, _)
CopyOut(f, t, element_channels) ==
    IF f.st # "ok" \/ t >= f.num_samples * element_channels THEN f
    ELSE CopyOut(StoreOut([f EXCEPT !.v = f.mix_buf[(t % element_channels) + 1]
                                                   [(t \div element_channels) + 1]],
                          t \div element_channels, t % element_channels),
                 t + 1, element_channels)

\* decode_audio_element: the loops of an uncompressed element
RECURSIVE ReadOut(_, _, _)
ReadOut(f, t, element_channels) ==
    IF f.st # "ok" \/ t >= f.num_samples * element_channels THEN f
    ELSE ReadOut(StoreOut(RdU32(f, config.bit_depth),
                          t \div element_channels, t % element_channels),
                 t + 1, element_channels)

\* decode_audio_element: if !is_uncompressed { .. }
Compressed(f, element_channels) ==
    CopyOut(ExtraAppended(Unmixed(Channels(ExtraBitsReader(Params(MixParams(
        ChanBits(MixBuf(f), element_channels)), 0, element_channels),
        element_channels), 0, element_channels), element_channels),
        element_channels), 0, element_channels)

\* decode_audio_element: .. else { .. }
Uncompressed(f, element_channels) ==
    IF f.sample_shift # 0
    THEN Err(f, "sample shift cannot be greater than zero for uncompressed channels")
    ELSE ReadOut(f, 0, element_channels)

ElementBody(f, element_channels) ==
    IF f.st # "ok" THEN f
    ELSE IF f.is_uncompressed = 0 THEN Compressed(f, element_channels)
    ELSE Uncompressed(f, element_channels)

\* decode_audio_element, from the frame at its entry; its channel_index is
\* decode_packet's
decode_audio_element(f, element_channels) ==
    ElementBody(Header(f), element_channels)

\* the Decoder's buf after an element: the two halves the element's mix_buf
\* borrowed hold what the element left in them
Scratch(f) ==
    [n \in 1..Len(buf) |->
        IF n <= Len(f.mix_buf[1]) THEN f.mix_buf[1][n]
        ELSE IF n > config.frame_length /\ n - config.frame_length <= Len(f.mix_buf[2])
        THEN f.mix_buf[2][n - config.frame_length]
        ELSE buf[n]]

\* decode_packet, SCE | LFE | CPE: the element_channels of the tag
ElementChannels(tag) == IF tag = ID_CPE THEN 2 ELSE 1

\* decode_packet: if channel_index + element_channels > num_channels
\* { return Err(..) }, then decode_audio_element(..)?; sum is the u8 sum
Admit(f, sum, element_channels) ==
    IF debug /\ sum.ovf THEN Panic(f, "channel_index + element_channels")
    ELSE IF sum.val > config.num_channels
    THEN Err(f, "packet contains more channels than expected")
    ELSE decode_audio_element(f, element_channels)

\* decode_packet: the number of samples must be that of the frame's first
\* element
Consistent(f) ==
    IF f.st = "ok" /\ frame_samples # <<>> /\ frame_samples[1] # f.num_samples
    THEN Err(f, "all channels in a packet must contain the same number of samples")
    ELSE f

\* decode_packet, ID_DSE
DseSkip(f) == IF f.st # "ok" THEN f ELSE SkipBits(f, f.y * 8)
DseAlign(f) == IF f.st # "ok" \/ f.x = 0 THEN f ELSE SkipToByteBoundary(f)
DseLong(f) == IF f.st # "ok" THEN f ELSE [f EXCEPT !.v = 255 + f.v]
DseCount(f) == IF f.st # "ok" \/ f.v # 255 THEN f ELSE DseLong(RdU8(f, 8))
data_stream_element(f) ==
    DseSkip(DseAlign(Let(DseCount(RdU8(Let(RdBit(RdU8(f, 4)), "x"), 8)), "y")))

\* decode_packet, ID_FIL: skip_bytes += reader.read_u8(8)? as usize - 1, in
\* which the - 1 of a byte of zero wraps when overflow is not checked, and
\* so does the += that follows
FilSkip(f) == IF f.st # "ok" THEN f ELSE SkipBits(f, f.v * 8)
FilLong(f) ==
    IF f.st # "ok" THEN f
    ELSE IF debug /\ f.v = 0 THEN Panic(f, "read_u8(8)? as usize - 1")
    ELSE [f EXCEPT !.v = 15 + f.v - 1]
FilCount(f) == IF f.st # "ok" \/ f.v # 15 THEN f ELSE FilLong(RdU8(f, 8))
fill_element(f) == FilSkip(FilCount(RdU8(f, 4)))

\* decode_packet, ID_END: the length of the slice returned in the value
\* register
EndOfFrame(f) ==
    IF f.st # "ok" THEN f
    ELSE IF channel_index # config.num_channels
    THEN Err(f, "packet contains fewer channels than expected")
    ELSE IF (IF frame_samples = <<>> THEN config.frame_length ELSE frame_samples[1])
            * channel_index > Len(f.out)
    THEN Panic(f, "slice index out of range")
    ELSE [f EXCEPT !.v = (IF frame_samples = <<>> THEN config.frame_length
                          ELSE frame_samples[1]) * channel_index]
end_element(f) == EndOfFrame(SkipToByteBoundary(f))

\* no Reader was built
ReaderIdle ==
    /\ mp4 = <<>>
    /\ iter = <<>>
    /\ hist = <<>>

\* no call of decode_packet was made
DecoderIdle ==
    /\ sbits = 0
    /\ packet = <<>>
    /\ out = <<>>
    /\ reader = BitCursorNew(<<>>)
    /\ channel_index = 0
    /\ frame_samples = <<>>
    /\ ret = [st |-> "idle", msg |-> "", len |-> 0]
    /\ log = <<>>
    /\ written = {}
    /\ covered = 0
    /\ last = -1

---------------------------------------------------------------------------
(* SpecCookie: a cookie or an SDP text is parsed into a StreamInfo, whose  *)
(* max_samples_per_packet is then asked for                                *)

\* the longest truncation of a cookie the inputs hold
MaxCookieLen == 49

\* The 24-byte ALACSpecificConfig with frame_length bytes fl, bit depth bd
\* and nc channels; the other fields hold bytes that tell them apart
Block(fl, bd, nc) ==
    fl \o <<7, bd, 40, 10, 14, nc, 18, 52, 10, 11, 12, 13, 128, 0, 0, 1, 0, 0, 172, 68>>

FrameLengthBytes ==
    {<<0, 0, 0, 0>>, <<0, 0, 16, 0>>, <<1, 0, 0, 0>>, <<1, 1, 1, 1>>,
     <<1, 1, 1, 2>>, <<128, 0, 0, 0>>, <<255, 255, 255, 255>>}
BitDepthBytes == {0, 1, 16, 32, 33, 255}
ChannelBytes == {0, 1, 2, 255}

FrmaAtom == <<0, 0, 0, 12>> \o Frma \o Alac
AlacAtom == <<0, 0, 0, 36>> \o Alac \o <<0, 0, 0, 0>>

Canonical == Block(<<0, 0, 16, 0>>, 16, 2)

\* a config whose own bytes [4..8] spell "frma"
FrmaLookalike == <<0, 0, 0, 1>> \o Frma \o <<14, 2, 0, 255>> \o Canonical

Prefixed == {Canonical, FrmaAtom \o Canonical, AlacAtom \o Canonical,
             FrmaAtom \o AlacAtom \o Canonical, AlacAtom \o FrmaAtom \o Canonical,
             FrmaAtom \o FrmaAtom \o Canonical, Canonical \o <<1, 2, 3>>,
             FrmaLookalike, SubSeq(FrmaLookalike, 1, 24)}

CookieInputs ==
    {Block(fl, bd, nc) : fl \in FrameLengthBytes, bd \in BitDepthBytes, nc \in ChannelBytes}
    \cup {AlacAtom \o Block(fl, 16, nc) : fl \in FrameLengthBytes, nc \in {0, 255}}
    \cup {SubSeq(c, 1, Min(n, Len(c))) : c \in Prefixed, n \in 0..MaxCookieLen}

\* the decimal digits of a natural number, as a text
RECURSIVE Dec(_)
Dec(n) == IF n < 10 THEN <<DigitChars[n + 1]>>
          ELSE Append(Dec(n \div 10), DigitChars[(n % 10) + 1])

Sp == <<" ">>
RECURSIVE Join(_, _)
Join(toks, sep) ==
    IF toks = <<>> THEN <<>>
    ELSE IF Len(toks) = 1 THEN toks[1]
    ELSE toks[1] \o sep \o Join(Tail(toks), sep)

CanonicalTokens ==
    <<Dec(4096), Dec(0), Dec(16), Dec(40), Dec(10), Dec(14), Dec(2), Dec(255),
      Dec(0), Dec(0), Dec(44100)>>

\* the decimal digits of 2^32 - 1
MaxU32Text == <<"4", "2", "9", "4", "9", "6", "7", "2", "9", "5">>

\* tokens tried in place of a field: zero, the edges of u8, u16 and u32,
\* a sign, a letter
OddTokens ==
    {Dec(0), Dec(1), Dec(33), Dec(255), Dec(256), Dec(65535), Dec(65536),
     MaxU32Text, <<"4", "2", "9", "4", "9", "6", "7", "2", "9", "6">>,
     <<"+", "2">>, <<"-", "1">>, <<"+">>, <<"0", "0", "7">>, <<"x">>, <<"1", "6", "b">>}

\* parameters whose compatible_version, bit_depth, pb and mb are the
\* character codes of an atom name
NamedTokens(name) ==
    [CanonicalTokens EXCEPT ![2] = Dec(name[1]), ![3] = Dec(name[2]),
                            ![4] = Dec(name[3]), ![5] = Dec(name[4])]

SdpInputs ==
    {Join([CanonicalTokens EXCEPT ![k] = t], Sp) : k \in 1..11, t \in OddTokens}
    \cup {Join(NamedTokens(Frma), Sp), Join(NamedTokens(Alac), Sp)}
    \cup {Join(SubSeq(CanonicalTokens, 1, n), Sp) : n \in 0..11}
    \cup {Join(CanonicalTokens, sep) : sep \in {<<" ", " ">>, <<"\t">>, <<" ", "\n">>}}
    \cup {Sp \o Join(CanonicalTokens, Sp) \o Sp,
          Join(CanonicalTokens \o <<Dec(1)>>, Sp),
          Join(CanonicalTokens, <<",">>)}

notCookie == <<cursorVars, decodeVars, readerVars>>

InitCookie ==
    /\ debug \in BOOLEAN
    /\ input \in [kind : {"cookie"}, bytes : CookieInputs]
                 \cup [kind : {"sdp"}, text : SdpInputs]
    /\ parsed = [st |-> "none"]
    /\ data = <<>>
    /\ bc = BitCursorNew(<<>>)
    /\ res = [op |-> "new", st |-> "ok", moved |-> 0]
    /\ config = <<>>
    /\ buf = <<>>
    /\ DecoderIdle
    /\ ReaderIdle

FromCookie ==
    /\ input.kind = "cookie"
    /\ parsed.st = "none"
    /\ parsed' = from_cookie(input.bytes)
    /\ UNCHANGED <<debug, input, notCookie>>

FromSdp ==
    /\ input.kind = "sdp"
    /\ parsed.st = "none"
    /\ parsed' = from_sdp_format_parameters(input.text)
    /\ UNCHANGED <<debug, input, notCookie>>

\* the caller asks the StreamInfo it got for max_samples_per_packet
MaxSamplesPerPacket ==
    /\ parsed.st = "ok"
    /\ parsed' = [st |-> "asked", info |-> parsed.info,
                  max_samples |-> max_samples_per_packet(parsed.info)]
    /\ UNCHANGED <<debug, input, notCookie>>

NextCookie == FromCookie \/ FromSdp \/ MaxSamplesPerPacket

SpecCookie == InitCookie /\ [][NextCookie]_vars

---------------------------------------------------------------------------
(* SpecCursor: a cursor over a byte slice, driven by any sequence of      *)
(* reads and skips                                                         *)

MaxBytes == 9
MaxSkip == 34

PatternA == <<222, 173, 190, 239, 1, 128, 85, 255, 0, 60, 195>>
PatternB == <<33, 82, 65, 16, 254, 127, 170, 0, 255, 195, 60>>

MkData(pat, n) == [i \in 1..n |-> pat[((i - 1) % Len(pat)) + 1]]

CursorInputs == {MkData(PatternA, n) : n \in 0..MaxBytes}
                \cup {MkData(PatternB, n) : n \in (MaxBytes - 1)..MaxBytes}

\* the absolute bit position of cursor c within the slice d
AbsPos(d, c) == 8 * (Len(d) - Len(c.buf)) - c.current_len + c.current_pos

\* the bits left between the cursor and the end of the slice
BitsLeft(d, c) == 8 * Len(d) - AbsPos(d, c)

notCursor == <<cookieVars, decodeVars, readerVars>>

InitCursor ==
    /\ debug \in BOOLEAN
    /\ data \in CursorInputs
    /\ bc = BitCursorNew(data)
    /\ res = [op |-> "new", st |-> "ok", moved |-> 0]
    /\ input = [kind |-> "none"]
    /\ parsed = [st |-> "none"]
    /\ config = <<>>
    /\ buf = <<>>
    /\ DecoderIdle
    /\ ReaderIdle

\* the cursor takes the operation's result; res keeps which operation ran
\* and how it ended (and, for skip_to_byte, by how many bits it moved)
Apply(op, r) ==
    /\ res' = [op |-> op, st |-> r.st,
               moved |-> IF op = "skip_to_byte"
                         THEN AbsPos(data, r.cur) - AbsPos(data, bc) ELSE 0]
    /\ bc' = r.cur
    /\ UNCHANGED <<debug, data, notCursor>>

ReadU32 == \E n \in 1..32 : Apply("read_u32", read_u32(bc, n))

ReadU16 == \E n \in 1..16 : Apply("read_u16", read_u16(bc, n))

ReadU8 == \E n \in 1..8 : Apply("read_u8", read_u8(bc, n))

ReadBit == Apply("read_bit", read_bit(bc))

Skip == \E n \in 0..MaxSkip : Apply("skip", skip(bc, n))

SkipToByte == Apply("skip_to_byte", skip_to_byte(bc))

NextCursor == ReadU32 \/ ReadU16 \/ ReadU8 \/ ReadBit \/ Skip \/ SkipToByte

SpecCursor == InitCursor /\ [][NextCursor]_vars

---------------------------------------------------------------------------
(* SpecDecode: a Decoder is created for a StreamInfo that from_cookie      *)
(* returned, and decode_packet is called once on a packet.  A step is the  *)
(* entry of the call or one iteration of its loop over the elements of the *)
(* packet.  log, written, covered and last record what the call did.       *)

\* the output slice is up to MaxSlack elements longer than
\* max_samples_per_packet, or one element shorter
MaxSlack == 1

\* n bits of the natural v, most significant first
Bits(v, n) == [i \in 1..n |-> (v \div Pow2(n - i)) % 2]

\* the bytes of a bit string, the last byte padded with zeros
BitAt(b, q) == IF q <= Len(b) THEN b[q] ELSE 0
ByteAt(b, q) ==
    128 * BitAt(b, q) + 64 * BitAt(b, q + 1) + 32 * BitAt(b, q + 2)
    + 16 * BitAt(b, q + 3) + 8 * BitAt(b, q + 4) + 4 * BitAt(b, q + 5)
    + 2 * BitAt(b, q + 6) + BitAt(b, q + 7)
Bytes(b) == [i \in 1..((Len(b) + 7) \div 8) |-> ByteAt(b, 8 * i - 7)]

\* n copies of the bit string s
Rep(s, n) == [i \in 1..(n * Len(s)) |-> s[((i - 1) % Len(s)) + 1]]

\* 16-bit samples, one after the other
Pcm16(vals) ==
    [q \in 1..(16 * Len(vals)) |->
        Bits(vals[((q - 1) \div 16) + 1], 16)[((q - 1) % 16) + 1]]

\* the header of an audio element: tag, instance tag 0, 12 unused bits,
\* partial frame flag, shift-off in bytes, escape (uncompressed) flag
ElementHeader(tag, partial, shift, unc) ==
    Bits(tag, 3) \o Bits(0, 4) \o Bits(0, 12) \o Bits(partial, 1)
    \o Bits(shift, 2) \o Bits(unc, 1)

\* the 32-bit sample count of a partial frame
Partial(n) == Bits(0, 16) \o Bits(n, 16)

\* the parameters of a compressed channel, without its coefficients
ChannelHeader(mode, quant, pbf, order) ==
    Bits(mode, 4) \o Bits(quant, 4) \o Bits(pbf, 3) \o Bits(order, 5)

\* a 16-bit coefficient
Coefficient(c) == Bits(c % U16, 16)

End == Bits(ID_END, 3)

\* uncompressed elements of a stream of 4 frames of 16 bits
Cpe16 == ElementHeader(ID_CPE, 0, 0, 1)
         \o Pcm16(<<4660, 65534, 1, 32768, 32767, 2, 3, 43981>>)
Sce16 == ElementHeader(ID_SCE, 0, 0, 1) \o Pcm16(<<17, 65519, 256, 4096>>)
Lfe16 == ElementHeader(ID_LFE, 0, 0, 1) \o Pcm16(<<19, 65517, 512, 8192>>)
ShortSce16(n) == ElementHeader(ID_SCE, 1, 0, 1) \o Partial(n)
                 \o Pcm16(SubSeq(<<21, 65515, 1024, 16384>>, 1, n))
ShortCpe16 == ElementHeader(ID_CPE, 1, 0, 1) \o Partial(1) \o Pcm16(<<23, 65513>>)

\* a data stream element of two bytes, byte aligned, and fill elements
Dse == Bits(ID_DSE, 3) \o Bits(0, 4) \o Bits(1, 1) \o Bits(2, 8)
       \o Bits(0, 16) \o Bits(43690, 16)
LongDse == Bits(ID_DSE, 3) \o Bits(0, 4) \o Bits(0, 1) \o Bits(255, 8)
           \o Bits(0, 8) \o Rep(<<1, 0>>, 1020)
Fil == Bits(ID_FIL, 3) \o Bits(1, 4) \o Bits(85, 8)
LongFil(ext) == Bits(ID_FIL, 3) \o Bits(15, 4) \o Bits(ext, 8) \o Rep(<<0, 1>>, 56)

\* a compressed pair with mixing, predictors of order 2 and 1
Cpe16Rice ==
    ElementHeader(ID_CPE, 0, 0, 0) \o Bits(2, 8) \o Bits(3, 8)
    \o ChannelHeader(0, 4, 4, 2) \o Coefficient(160) \o Coefficient(-70)
    \o ChannelHeader(0, 4, 4, 1) \o Coefficient(32)
    \o <<0, 0, 0, 0, 0, 1, 1, 1, 1, 1, 0, 1, 0, 0, 0, 0, 0, 0, 0, 0, 0, 0, 0, 0,
         0, 1, 1, 0, 1, 1, 1, 0, 0, 1, 0, 0, 0, 0, 0, 1, 1, 1, 1, 0, 1, 0, 0, 0,
         1, 0, 0, 0, 0, 0, 0, 0>>

\* a compressed channel whose header gives the predictor order 31
Sce16Order31 ==
    ElementHeader(ID_SCE, 0, 0, 0) \o Bits(0, 8) \o Bits(0, 8)
    \o ChannelHeader(0, 4, 4, 31) \o Rep(Coefficient(1), 31) \o Rep(<<0>>, 64)

\* a compressed channel of lpc_order 31 in the lpc_mode 15 and in the
\* lpc_mode 7
Sce16ModeOrder31(mode) ==
    ElementHeader(ID_SCE, 0, 0, 0) \o Bits(0, 8) \o Bits(0, 8)
    \o ChannelHeader(mode, 4, 4, 31) \o Rep(Coefficient(1), 31) \o Rep(<<0>>, 64)

\* a compressed pair in lpc_mode 15
Cpe16Mode15 ==
    ElementHeader(ID_CPE, 0, 0, 0) \o Bits(0, 8) \o Bits(0, 8)
    \o ChannelHeader(15, 4, 4, 0)
    \o ChannelHeader(15, 4, 4, 1) \o Coefficient(100)
    \o <<0, 0, 0, 0, 0, 1, 1, 1, 0, 0, 0, 1, 1, 0, 0, 0, 0, 0, 0, 1, 0, 0, 1,
         0, 1, 1, 0, 0, 1, 0, 0, 1, 0, 0, 1, 1, 1, 1, 1, 0, 0, 1, 0, 0, 0, 1,
         1, 1, 1, 0, 1, 0, 0, 1, 0, 0, 0, 1, 1, 0, 0, 1, 0, 1>>

\* a compressed pair with 8 extra bits a sample
Cpe16Shift8 ==
    ElementHeader(ID_CPE, 0, 1, 0) \o Bits(1, 8) \o Bits(1, 8)
    \o ChannelHeader(0, 4, 4, 0) \o ChannelHeader(0, 4, 4, 0)
    \o <<0, 1, 0, 0, 1, 0, 0, 1, 0, 0, 1, 0, 1, 0, 1, 0, 0, 0, 0, 0, 1, 0, 0,
         0, 0, 0, 0, 0, 0, 1, 0, 0, 0, 1, 1, 0, 0, 0, 1, 0, 0, 0, 0, 1, 0, 0,
         0, 0, 0, 0, 1, 1, 0, 0, 1, 0, 0, 0, 1, 0, 1, 0, 0, 1, 0, 0, 0, 0, 1,
         0, 0, 0, 1, 0, 1, 1, 0, 0, 0, 0, 0, 0, 0, 0, 0, 0, 1, 1, 1, 0, 0, 1,
         1, 1, 1, 1, 1, 1, 0, 0, 0, 0, 1, 0, 0, 1, 0, 0, 1, 1, 0, 0>>

\* a compressed pair with a block of zeros longer than the channel
Cpe16LongZeroBlock ==
    ElementHeader(ID_CPE, 0, 0, 0) \o Bits(0, 8) \o Bits(0, 8)
    \o ChannelHeader(0, 4, 4, 0) \o ChannelHeader(0, 4, 4, 0)
    \o <<1, 1, 0, 0, 0, 0, 1, 1, 0, 1, 1, 0, 0, 0, 1, 1, 1, 0, 1, 1, 1, 0, 0,
         0, 0, 1, 1, 0, 0, 0, 0, 0, 1, 0, 1, 0, 0, 1, 1, 0, 0, 0, 0, 1, 1, 0,
         1, 0, 0, 0, 0, 1, 0, 0, 0, 0, 0, 0, 0, 1, 0, 1, 1, 0>>

\* a compressed pair with blocks of zeros
Cpe16ZeroBlock ==
    ElementHeader(ID_CPE, 0, 0, 0) \o Bits(0, 8) \o Bits(0, 8)
    \o ChannelHeader(0, 4, 4, 0) \o ChannelHeader(0, 4, 4, 0)
    \o <<0, 0, 0, 0, 0, 1, 0, 0, 1, 0, 0, 0, 0, 0, 0, 0, 0, 0, 0, 0, 0, 0, 0,
         1, 1, 1, 0, 0, 1, 0, 1, 0, 0, 1, 0, 0, 1, 0, 1, 0, 0, 0, 0, 0, 1, 0,
         1, 0, 0, 0, 0, 0, 0, 0, 0, 0, 0, 1, 1, 1, 0, 1, 0, 0>>

\* a compressed pair with mix_bits 40
Cpe16MixBits40 ==
    ElementHeader(ID_CPE, 0, 0, 0) \o Bits(40, 8) \o Bits(255, 8)
    \o ChannelHeader(0, 4, 4, 0) \o ChannelHeader(0, 4, 4, 0)
    \o <<0, 0, 0, 0, 1, 0, 1, 0, 0, 0, 1, 0, 1, 0, 0, 0, 0, 0, 0, 0, 1, 1, 1,
         0, 0, 1, 1, 0, 0, 1, 0, 0, 0, 0, 1, 1, 1, 1, 0, 0, 0, 0, 1, 1, 0, 1,
         0, 0, 0, 1, 0, 0, 1, 0, 0, 1, 1, 0, 0, 1, 1, 0, 0, 0>>

\* a compressed pair with lpc_quant 0
Cpe16Quant0 ==
    ElementHeader(ID_CPE, 0, 0, 0) \o Bits(0, 8) \o Bits(0, 8)
    \o ChannelHeader(0, 0, 4, 1) \o Coefficient(3)
    \o ChannelHeader(0, 4, 4, 0)
    \o <<0, 0, 0, 0, 0, 0, 0, 1, 0, 1, 0, 1, 1, 1, 0, 0, 0, 0, 1, 0, 1, 0, 1,
         1, 1, 0, 1, 0, 1, 0, 1, 0, 0, 0, 1, 0, 1, 0, 0, 0, 0, 0, 0, 0, 1, 1,
         0, 0, 0, 0, 1, 0, 0, 0, 0, 1, 0, 0, 1, 1, 0, 0, 0, 0>>

\* a compressed pair that starts with an escaped symbol
Cpe16Escape ==
    ElementHeader(ID_CPE, 0, 0, 0) \o Bits(0, 8) \o Bits(0, 8)
    \o ChannelHeader(0, 4, 4, 0) \o ChannelHeader(0, 4, 4, 0)
    \o Rep(<<1>>, 9)
    \o <<0, 0, 1, 0, 0, 0, 0, 0, 0, 1, 0, 0, 0, 0, 1, 1, 0, 0, 1, 0, 0, 0, 0,
         1, 0, 0, 0, 1, 0, 1, 0, 0, 0, 1, 0, 0, 1, 0, 0, 0, 0, 0, 0, 0, 0, 0,
         0, 0, 0, 1, 1, 0, 0, 0, 0, 0, 0, 0, 0, 0, 0, 1, 1, 1, 1, 0, 0, 0, 1,
         0, 1, 1, 0, 0, 1, 0, 0, 0, 0, 1, 1, 0, 0, 0, 0, 0, 0, 0, 1, 0, 0, 1,
         0, 0, 0, 0>>

\* a compressed pair with predictors of order 2
Cpe16Adapt ==
    ElementHeader(ID_CPE, 0, 0, 0) \o Bits(0, 8) \o Bits(0, 8)
    \o ChannelHeader(0, 9, 4, 2) \o Coefficient(-300) \o Coefficient(700)
    \o ChannelHeader(0, 2, 7, 2) \o Coefficient(5) \o Coefficient(-5)
    \o <<0, 0, 0, 0, 0, 1, 1, 0, 0, 0, 0, 0, 0, 0, 0, 1, 0, 0, 1, 0, 1, 1, 1,
         0, 0, 1, 1, 0, 0, 1, 0, 1, 0, 0, 0, 0, 1, 1, 0, 0, 0, 0, 1, 0, 0, 0,
         0, 0, 0, 0, 1, 0, 0, 0, 0, 1, 0, 0, 0, 0, 1, 0, 0, 0, 0, 1, 1, 1, 1,
         0, 0, 0>>

\* a compressed pair in the lpc_mode 7, which is none
Cpe16BadMode ==
    ElementHeader(ID_CPE, 0, 0, 0) \o Bits(0, 8) \o Bits(0, 8)
    \o ChannelHeader(7, 4, 4, 0) \o ChannelHeader(0, 4, 4, 0) \o Rep(<<0>>, 64)

\* a compressed channel with as many extra bits as the bit depth
Sce16Shift16 ==
    ElementHeader(ID_SCE, 0, 2, 0) \o Bits(0, 8) \o Bits(0, 8)
    \o ChannelHeader(0, 4, 4, 0) \o Rep(<<0, 1>>, 64)

\* the same with rice data of four symbols 4 after the extra bits
Sce16Shift16Rice ==
    ElementHeader(ID_SCE, 0, 2, 0) \o Bits(0, 8) \o Bits(0, 8)
    \o ChannelHeader(0, 4, 4, 0) \o Rep(<<0, 1>>, 32) \o Rep(<<1, 1, 1, 1, 0>>, 4)

\* a compressed channel with a pb_factor of 0: the history stays at mb, and
\* at 0 after the first block of zeros
Sce16Factor0 ==
    ElementHeader(ID_SCE, 0, 0, 0) \o Bits(0, 8) \o Bits(0, 8)
    \o ChannelHeader(0, 4, 0, 0) \o Rep(<<0>>, 24)

\* a compressed channel with a pb_factor of 7 whose first symbol is the
\* escaped value 65535
Sce16Factor7 ==
    ElementHeader(ID_SCE, 0, 0, 0) \o Bits(0, 8) \o Bits(0, 8)
    \o ChannelHeader(0, 4, 7, 0) \o Rep(<<1>>, 25) \o Rep(<<0>>, 42)

\* a compressed channel with one coefficient c, the residuals 2, r, 2, 2
\* (r is 2 or -2), which adapts the coefficient by the sign of r
Sce16Coefficient(c, r) ==
    ElementHeader(ID_SCE, 0, 0, 0) \o Bits(0, 8) \o Bits(0, 8)
    \o ChannelHeader(0, 4, 4, 1) \o Coefficient(c)
    \o <<1, 1, 1, 1, 0>>
    \o (IF r = 2 THEN <<1, 1, 1, 1, 0>> ELSE <<1, 1, 1, 0>>)
    \o <<1, 1, 1, 1, 0>> \o <<1, 1, 1, 1, 0>>

\* elements with a shift-off of 3 bytes, with a shift-off though
\* uncompressed, and with more samples than a frame
Sce16Shift24 == ElementHeader(ID_SCE, 0, 3, 0) \o Rep(<<0>>, 64)
Sce16ShiftedPcm == ElementHeader(ID_SCE, 0, 1, 1) \o Pcm16(<<17, 65519, 256, 4096>>)
LongSce16 == ElementHeader(ID_SCE, 1, 0, 1) \o Partial(5)
             \o Pcm16(<<1, 2, 3, 4, 5>>)

\* uncompressed elements of a stream of 1 frame of 1 bit
Sce1(s) == ElementHeader(ID_SCE, 0, 0, 1) \o <<s>>
Cpe1(l, r) == ElementHeader(ID_CPE, 0, 0, 1) \o <<l, r>>

\* the packets decode_packet is called on
Packets ==
    {Bytes(Cpe16 \o End),
     Bytes(Sce16 \o Lfe16 \o End),
     Bytes(Cpe16 \o Sce16 \o End),
     Bytes(End),
     Bytes(Sce16 \o End),
     Bytes(Dse \o Fil \o Cpe16 \o End),
     Bytes(LongDse \o Cpe16 \o End),
     Bytes(Bits(ID_CCE, 3)),
     Bytes(Bits(ID_PCE, 3)),
     Bytes(LongFil(0) \o Cpe16 \o End),
     Bytes(LongFil(1) \o Cpe16 \o End),
     Bytes(ShortSce16(1) \o ShortSce16(2) \o End),
     Bytes(ShortCpe16 \o End),
     Bytes(ShortSce16(0) \o ShortSce16(0) \o End),
     Bytes(Cpe16Rice \o End),
     Bytes(Sce16Order31 \o End),
     Bytes(Sce16ModeOrder31(15) \o End),
     Bytes(Sce16ModeOrder31(7) \o End),
     Bytes(Cpe16Mode15 \o End),
     Bytes(Cpe16Shift8 \o End),
     Bytes(Cpe16LongZeroBlock \o End),
     Bytes(Cpe16ZeroBlock \o End),
     Bytes(Cpe16MixBits40 \o End),
     Bytes(Cpe16Quant0 \o End),
     Bytes(Cpe16Escape \o End),
     Bytes(Cpe16Adapt \o End),
     Bytes(Cpe16BadMode \o End),
     Bytes(Sce16Shift16 \o End),
     Bytes(Sce16Shift16Rice \o Lfe16 \o End),
     Bytes(Sce16Factor0 \o Lfe16 \o End),
     Bytes(Sce16Factor7 \o Lfe16 \o End),
     Bytes(Sce16Coefficient(32767, 2) \o Lfe16 \o End),
     Bytes(Sce16Coefficient(-32768, -2) \o Lfe16 \o End),
     Bytes(Sce16Shift24 \o End),
     Bytes(Sce16ShiftedPcm \o End),
     Bytes(LongSce16 \o End),
     Bytes(Rep(Sce1(0) \o Sce1(1) \o Sce1(1), 85) \o End),
     Bytes(Rep(Sce1(0), 254) \o Cpe1(1, 0) \o End),
     Bytes(Rep(Sce1(0), 254) \o Cpe1(1, 0) \o Rep(Cpe1(1, 1), 127) \o Sce1(1) \o End)}
    \cup {SubSeq(Bytes(Cpe16Escape), 1, n) : n \in 9..12}
    \cup {SubSeq(Bytes(Cpe16Adapt), 1, n) : n \in 17..21}
    \cup {SubSeq(Bytes(Cpe16Shift8), 1, n) : n \in {12, 16}}
    \cup {MkData(PatternB, n) : n \in 0..MaxBytes}

\* the cookies the Decoder's StreamInfo is parsed from: 4 frames of 16 bits
\* in 2 channels; 1 frame of 1 bit in 255 channels; 2 frames of 32 bits in
\* 2 channels; and the first with a rice limit kb of zero, and with a
\* history multiplier pb of 255
DecoderCookies ==
    {Block(<<0, 0, 0, 4>>, 16, 2),
     Block(<<0, 0, 0, 1>>, 1, 255),
     Block(<<0, 0, 0, 2>>, 32, 2),
     [Block(<<0, 0, 0, 4>>, 16, 2) EXCEPT ![9] = 0],
     [Block(<<0, 0, 0, 4>>, 16, 2) EXCEPT ![7] = 255]}

notDecode == <<cursorVars, parsed, readerVars>>

InitDecode ==
    /\ debug \in BOOLEAN
    /\ input \in [kind : {"cookie"}, bytes : DecoderCookies]
    /\ parsed = from_cookie(input.bytes)
    /\ parsed.st = "ok"
    /\ config = parsed.info
    /\ buf = DecoderNew(config)
    /\ DecoderIdle
    /\ ReaderIdle
    /\ data = <<>>
    /\ bc = BitCursorNew(<<>>)
    /\ res = [op |-> "new", st |-> "ok", moved |-> 0]

\* how a call ends: Ok with a slice of len elements of out, Err(InvalidData)
\* with message msg, or a panic
Return(st, msg, len) == [st |-> st, msg |-> msg, len |-> len]

\* decode_packet up to its loop: the two assertions on the caller's slice;
\* m is max_samples_per_packet(), n the length of out, S is S::bits()
Entry(m, n, S) ==
    IF m.st = "panic" THEN Return("panic", "frame_length * num_channels", 0)
    ELSE IF n < m.val
    THEN Return("panic", "assert!(out.len() >= max_samples_per_packet())", 0)
    ELSE IF S < config.bit_depth
    THEN Return("panic", "assert!(S::bits() >= bit_depth)", 0)
    ELSE Return("running", "", 0)

Called(p, S, n, m) ==
    /\ packet' = p
    /\ sbits' = S
    /\ out' = [i \in 1..n |-> 0]
    /\ reader' = BitCursorNew(p)
    /\ channel_index' = 0
    /\ frame_samples' = <<>>
    /\ ret' = Entry(m, n, S)

\* decode_packet is called on packet p with an out of S-bit samples
DecodePacket ==
    /\ ret.st = "idle"
    /\ \E p \in Packets, S \in SampleBits, m \in {max_samples_per_packet(config)} :
         \E n \in (m.val - 1)..(m.val + MaxSlack) :
            n >= 0 /\ Called(p, S, n, m)
    /\ UNCHANGED <<debug, config, buf, log, written, covered, last, input, notDecode>>

\* an iteration left frame f: a frame that is not "ok" ends the call
Continue(f) ==
    /\ reader' = f.cur
    /\ out' = f.out
    /\ ret' = IF f.st = "ok" THEN ret ELSE Return(f.st, f.msg, 0)

\* what the log keeps of an audio element: its tag, the channel_index it
\* was met at, its element_channels and what decoding it left in frame f
Logged(tag, f) ==
    [tag |-> tag, at |-> channel_index, channels |-> ElementChannels(tag),
     st |-> f.st, msg |-> f.msg, samples |-> f.num_samples,
     chans |-> f.chans, wrote |-> f.wrote, obs |-> f.obs, w |-> f.w]

\* decode_packet: let tag = reader.read_u8(3)? fails
TagMissing ==
    /\ ret.st = "running"
    /\ \E t \in {RdU8(Frame(reader, out), 3)} :
         /\ t.st # "ok"
         /\ Continue(t)
    /\ UNCHANGED <<debug, config, sbits, packet, buf, channel_index, frame_samples,
                   log, written, covered, last, input, notDecode>>

Decoded(tag, sum, f) ==
    /\ Continue(f)
    /\ buf' = Scratch(f)
    /\ channel_index' = IF f.st = "ok" THEN sum.val ELSE channel_index
    /\ frame_samples' = IF f.st = "ok" THEN <<f.num_samples>> ELSE frame_samples
    /\ log' = Append(log, Logged(tag, f))
    /\ written' = written \cup f.wrote
    /\ covered' = IF f.st = "ok" THEN covered + ElementChannels(tag) ELSE covered
    /\ last' = tag

\* decode_packet, the arm ID_SCE | ID_LFE | ID_CPE
AudioElement ==
    /\ ret.st = "running"
    /\ \E t \in {RdU8(Frame(reader, out), 3)} :
         /\ t.st = "ok"
         /\ t.v \in {ID_SCE, ID_LFE, ID_CPE}
         /\ \E sum \in {U8Add(channel_index, ElementChannels(t.v))} :
              \E f \in {Consistent(Admit(t, sum, ElementChannels(t.v)))} :
                 Decoded(t.v, sum, f)
    /\ UNCHANGED <<debug, config, sbits, packet, input, notDecode>>

\* decode_packet, the arm ID_CCE | ID_PCE
Unsupported ==
    /\ ret.st = "running"
    /\ \E t \in {RdU8(Frame(reader, out), 3)} :
         /\ t.st = "ok"
         /\ t.v \in {ID_CCE, ID_PCE}
         /\ Continue(Err(t, "packet cce and pce elements are unsupported"))
         /\ last' = t.v
    /\ UNCHANGED <<debug, config, sbits, packet, buf, channel_index, frame_samples,
                   log, written, covered, input, notDecode>>

\* decode_packet, the arm ID_DSE
DataStreamElement ==
    /\ ret.st = "running"
    /\ \E t \in {RdU8(Frame(reader, out), 3)} :
         /\ t.st = "ok"
         /\ t.v = ID_DSE
         /\ Continue(data_stream_element(t))
         /\ last' = t.v
    /\ UNCHANGED <<debug, config, sbits, packet, buf, channel_index, frame_samples,
                   log, written, covered, input, notDecode>>

\* decode_packet, the arm ID_FIL
FillElement ==
    /\ ret.st = "running"
    /\ \E t \in {RdU8(Frame(reader, out), 3)} :
         /\ t.st = "ok"
         /\ t.v = ID_FIL
         /\ Continue(fill_element(t))
         /\ last' = t.v
    /\ UNCHANGED <<debug, config, sbits, packet, buf, channel_index, frame_samples,
                   log, written, covered, input, notDecode>>

Finished(f) ==
    /\ reader' = f.cur
    /\ out' = f.out
    /\ ret' = IF f.st = "ok" THEN Return("ok", "", f.v) ELSE Return(f.st, f.msg, 0)

\* decode_packet, the arm ID_END
EndElement ==
    /\ ret.st = "running"
    /\ \E t \in {RdU8(Frame(reader, out), 3)} :
         /\ t.st = "ok"
         /\ t.v = ID_END
         /\ Finished(end_element(t))
         /\ last' = t.v
    /\ UNCHANGED <<debug, config, sbits, packet, buf, channel_index, frame_samples,
                   log, written, covered, input, notDecode>>

NextDecode ==
    \/ DecodePacket
    \/ TagMissing
    \/ AudioElement
    \/ Unsupported
    \/ DataStreamElement
    \/ FillElement
    \/ EndElement

SpecDecode == InitDecode /\ [][NextDecode]_vars

---------------------------------------------------------------------------
(* mp4.rs and reader.rs: the packets of a container, read one by one by    *)
(* Mp4PacketReader and decoded by the Samples iterator of a Reader         *)

\* the scan of Mp4PacketReader::new over the entries of the stsc atom, with
\* (samples, prev_chunk) as the scan's state
RECURSIVE sample_to_chunk_scan(_, _, _)
sample_to_chunk_scan(stsc, samples, prev_chunk) ==
    IF stsc = <<>> THEN <<>>
    ELSE LET s == Head(stsc)
             first_chunk == s.first_chunk - 1
             first_sample == samples + (first_chunk - prev_chunk) * s.samples_per_chunk
         IN  <<[first_sample |-> first_sample, first_chunk |-> first_chunk,
                samples_per_chunk |-> s.samples_per_chunk]>>
             \o sample_to_chunk_scan(Tail(stsc), first_sample, first_chunk)

\* Mp4PacketReader::new once read_mp4 found the track: the stream and its
\* position, the tables of the track, and sample_idx
Mp4PacketReaderNew(file, chunk_offsets, sample_sizes, stsc) ==
    [file |-> file, pos |-> Len(file),
     chunk_offsets |-> chunk_offsets,
     sample_sizes |-> sample_sizes,
     sample_to_chunk |-> sample_to_chunk_scan(stsc, 0, 0),
     sample_idx |-> 0]

\* the 0-based indices binary_search_by_key(&key, |s| s.first_sample) with
\* unwrap_or_else(|i| i - 1) may give: that of an entry with the key, or
\* else the insertion point less one
sample_to_chunk_idx(s, key) ==
    IF \E i \in 1..Len(s) : s[i].first_sample = key
    THEN {i - 1 : i \in {j \in 1..Len(s) : s[j].first_sample = key}}
    ELSE {Cardinality({j \in 1..Len(s) : s[j].first_sample < key}) - 1}

\* how next_packet_into ends: Ok, an io error or a panic, with the reader
\* it leaves and the buf it filled
Fetched(st, m, b) == [st |-> st, m |-> m, buf |-> b]

\* read_exact of n bytes at the stream's position
read_exact(m, n) ==
    IF m.pos + n > Len(m.file)
    THEN Fetched("io", [m EXCEPT !.pos = IF @ > Len(m.file) THEN @ ELSE Len(m.file)],
                 [i \in 1..n |-> 0])
    ELSE Fetched("ok", [m EXCEPT !.pos = @ + n], SubSeq(m.file, m.pos + 1, m.pos + n))

\* A faulty end of next_packet_into that leaves sample_idx as it was
packet_read_without_advance(r) == r

\* the end of next_packet_into after read_exact ended as r: an error is
\* returned, else sample_idx advances
packet_read(r) ==
    IF r.st = "ok" THEN Fetched("ok", [r.m EXCEPT !.sample_idx = @ + 1], r.buf)
    ELSE r

\* next_packet_into past the search, with the entry at index i
next_packet_at(m, i) ==
    IF i < 0 \/ m.sample_to_chunk[i + 1].samples_per_chunk = 0
    THEN Fetched("panic", m, <<>>)
    ELSE LET e == m.sample_to_chunk[i + 1]
             chunks_past_first_chunk ==
                 (m.sample_idx - e.first_sample) \div e.samples_per_chunk
             samples_into_chunk ==
                 m.sample_idx - chunks_past_first_chunk * e.samples_per_chunk
             chunk_idx == e.first_chunk + chunks_past_first_chunk
         IN  IF samples_into_chunk # 0
             THEN packet_read(read_exact(m, m.sample_sizes[m.sample_idx + 1]))
             ELSE IF chunk_idx >= Len(m.chunk_offsets)
             THEN Fetched("panic", m, <<>>)
             ELSE packet_read(read_exact([m EXCEPT !.pos = m.chunk_offsets[chunk_idx + 1]],
                                         m.sample_sizes[m.sample_idx + 1]))

\* Mp4PacketReader::next_packet_into: the outcomes of one call
next_packet_into(m) ==
    IF m.sample_idx = Len(m.sample_sizes)
    THEN {Fetched("ok", m, <<>>)}
    ELSE {next_packet_at(m, i) : i \in sample_to_chunk_idx(m.sample_to_chunk, m.sample_idx)}

\* the calls of next a behaviour makes
MaxItems == 32

\* an item a call of Samples::next returned: Some(Ok(v)) "ok", Some(Err(
\* ReadError::Decoder)) "err" with the message, Some(Err(ReadError::Io))
\* "io", None "none", or no return for a panic; fetched is the index of the
\* packet the call asked of the packet reader, -1 if it asked for none
Item(st, v, fetched) == [st |-> st, v |-> v, fetched |-> fetched]

\* the Samples iterator; fetching is the index of the packet under decoding
SamplesNew == [sample_len |-> 0, sample_pos |-> 0, alive |-> TRUE, fetching |-> -1]

\* Samples::next returns item without a call of decode_packet, leaving
\* samples o, packet_buf b and packet reader m
Returns(item, o, b, m) ==
    /\ hist' = [hist EXCEPT !.items = Append(@, item)]
    /\ iter' = [iter EXCEPT !.sample_pos = IF item.st = "ok" THEN @ + 1 ELSE @,
                            !.alive = item.st # "panic"]
    /\ out' = o
    /\ packet' = b
    /\ mp4' = m
    /\ UNCHANGED <<reader, channel_index, frame_samples, ret, log, written,
                   covered, last>>

\* Reader::decode_next_packet_into up to its call of decode_packet, after
\* next_packet_into ended as r
DecodeNextPacketInto(r, o, max) ==
    IF r.st # "ok" THEN Returns(Item(r.st, 0, mp4.sample_idx), o, r.buf, r.m)
    ELSE IF r.buf = <<>> THEN Returns(Item("none", 0, mp4.sample_idx), o, r.buf, r.m)
    ELSE /\ packet' = r.buf
         /\ mp4' = r.m
         /\ out' = o
         /\ reader' = BitCursorNew(r.buf)
         /\ channel_index' = 0
         /\ frame_samples' = <<>>
         /\ ret' = Entry(max, Len(o), sbits)
         /\ log' = <<>>
         /\ written' = {}
         /\ covered' = 0
         /\ last' = -1
         /\ iter' = [iter EXCEPT !.fetching = mp4.sample_idx]
         /\ hist' = hist

\* Samples::next up to its return or to its call of decode_packet
SamplesNext ==
    /\ ret.st = "idle"
    /\ iter.alive
    /\ Len(hist.items) < MaxItems
    /\ \E max \in {max_samples_per_packet(config)} :
         \E o \in {IF out = <<>> THEN [i \in 1..max.val |-> 0] ELSE out} :
            IF iter.sample_pos # iter.sample_len
            THEN Returns(Item("ok", o[iter.sample_pos + 1], -1), o, packet, mp4)
            ELSE \E r \in next_packet_into(mp4) : DecodeNextPacketInto(r, o, max)
    /\ UNCHANGED <<debug, config, buf, sbits, input, cursorVars, parsed>>

\* Samples::next from the return of decode_packet on
SamplesNextDecoded ==
    /\ ret.st \in {"ok", "err", "panic"}
    /\ hist' = [hist EXCEPT
         !.calls = Append(@, [packet |-> iter.fetching, bytes |-> packet,
                              st |-> ret.st, msg |-> ret.msg, wrote |-> written,
                              samples |-> SubSeq(out, 1, ret.len)]),
         !.items = Append(@,
            IF ret.st = "ok"
            THEN IF ret.len = 0 THEN Item("none", 0, iter.fetching)
                 ELSE Item("ok", out[1], iter.fetching)
            ELSE Item(ret.st, ret.msg, iter.fetching))]
    /\ iter' = IF ret.st = "ok" /\ ret.len # 0
               THEN [iter EXCEPT !.sample_len = ret.len, !.sample_pos = 1,
                                 !.fetching = -1]
               ELSE [iter EXCEPT !.alive = ret.st # "panic", !.fetching = -1]
    /\ ret' = [st |-> "idle", msg |-> "", len |-> 0]
    /\ UNCHANGED <<debug, config, buf, sbits, packet, out, reader, channel_index,
                   frame_samples, log, written, covered, last, mp4, input,
                   cursorVars, parsed>>

---------------------------------------------------------------------------
(* SpecReader: the Samples iterator of a Reader over an MP4 container      *)

\* the concatenation of the sequences of ss
RECURSIVE Flat(_)
Flat(ss) == IF ss = <<>> THEN <<>> ELSE Head(ss) \o Flat(Tail(ss))

\* a container of chunks of packets, gap bytes of other data before each
\* chunk, the entries of its stsc atom, and cut bytes missing at the end of
\* the file
Container(chunks, gap, stsc, cut) ==
    [chunks |-> chunks, gap |-> gap, stsc |-> stsc, cut |-> cut]

\* the stsc entry for chunks of n packets from chunk first_chunk on, the
\* first chunk being chunk 1
Stsc(first_chunk, n) == [first_chunk |-> first_chunk, samples_per_chunk |-> n]

\* the bytes of the file of c, the offsets of its chunks, its packets
WholeFile(c) ==
    Flat([i \in 1..Len(c.chunks) |-> Rep(<<255>>, c.gap) \o Flat(c.chunks[i])])
FileOf(c) == SubSeq(WholeFile(c), 1, Len(WholeFile(c)) - c.cut)
RECURSIVE OffsetsOf(_, _, _)
OffsetsOf(chunks, gap, at) ==
    IF chunks = <<>> THEN <<>>
    ELSE <<at + gap>>
         \o OffsetsOf(Tail(chunks), gap, at + gap + Len(Flat(Head(chunks))))
PacketsOf(c) == Flat(c.chunks)

\* packets of a stream of 4 frames of 16 bits in 2 channels: three that
\* decode, five that the decoder refuses, the last after it wrote a pair,
\* one of no samples and one that panics
PairPacket == Bytes(Cpe16 \o End)
SinglesPacket == Bytes(Sce16 \o Lfe16 \o End)
FilledPacket == Bytes(Dse \o Fil \o Cpe16 \o End)
CcePacket == Bytes(Bits(ID_CCE, 3))
FilPacket == Bytes(Fil)
ModePacket == Bytes(Cpe16BadMode \o End)
ShortPacket == Bytes(Sce16 \o End)
ExcessPacket == Bytes(Cpe16 \o Sce16 \o End)
NoSamplesPacket == Bytes(ShortSce16(0) \o ShortSce16(0) \o End)
Order31Packet == Bytes(Sce16Order31 \o End)

\* compressed packets of the same stream, which go through the scratch
\* buffers of the Decoder
RicePacket == Bytes(Cpe16Rice \o End)
ZeroBlockPacket == Bytes(Cpe16ZeroBlock \o End)
ShiftPacket == Bytes(Cpe16Shift8 \o End)
AdaptPacket == Bytes(Cpe16Adapt \o End)

Containers ==
    {Container(<<<<PairPacket, ExcessPacket>>, <<SinglesPacket, PairPacket>>>>, 3,
               <<Stsc(1, 2)>>, 0),
     Container(<<<<CcePacket>>, <<FilledPacket>>, <<FilPacket>>, <<PairPacket>>>>, 1,
               <<Stsc(1, 1)>>, 0),
     Container(<<<<ModePacket, ShortPacket, SinglesPacket>>>>, 0, <<Stsc(1, 3)>>, 0),
     Container(<<<<PairPacket, <<>>, SinglesPacket>>>>, 2, <<Stsc(1, 3)>>, 0),
     Container(<<<<SinglesPacket, NoSamplesPacket, PairPacket>>>>, 0, <<Stsc(1, 4)>>, 0),
     Container(<<<<ExcessPacket, PairPacket>>, <<SinglesPacket>>>>, 5, <<Stsc(1, 2)>>, 2),
     Container(<<<<SinglesPacket, Order31Packet, PairPacket>>>>, 1, <<Stsc(1, 3)>>, 0),
     Container(<<<<PairPacket, ExcessPacket>>, <<SinglesPacket>>>>, 0,
               <<Stsc(1, 2), Stsc(2, 1)>>, 0),
     Container(<<<<PairPacket, ExcessPacket>>, <<SinglesPacket>>>>, 3,
               <<Stsc(1, 2), Stsc(2, 1)>>, 0),
     Container(<<<<ZeroBlockPacket, RicePacket, ZeroBlockPacket>>>>, 0,
               <<Stsc(1, 3)>>, 0),
     Container(<<<<RicePacket, ModePacket, RicePacket>>>>, 0, <<Stsc(1, 3)>>, 0),
     Container(<<<<ShiftPacket, AdaptPacket, ShiftPacket>>>>, 0, <<Stsc(1, 3)>>, 0),
     Container(<<<<AdaptPacket, ExcessPacket, AdaptPacket>>>>, 0, <<Stsc(1, 3)>>, 0)}

\* Reader::new and into_samples::<S>: the cookie of the container makes the
\* Decoder, the tables of the track the packet reader
InitReader ==
    /\ debug \in BOOLEAN
    /\ input = [kind |-> "cookie", bytes |-> Block(<<0, 0, 0, 4>>, 16, 2)]
    /\ parsed = from_cookie(input.bytes)
    /\ config = parsed.info
    /\ buf = DecoderNew(config)
    /\ sbits \in SampleBits
    /\ packet = <<>>
    /\ out = <<>>
    /\ reader = BitCursorNew(<<>>)
    /\ channel_index = 0
    /\ frame_samples = <<>>
    /\ ret = [st |-> "idle", msg |-> "", len |-> 0]
    /\ log = <<>>
    /\ written = {}
    /\ covered = 0
    /\ last = -1
    /\ \E c \in Containers :
         /\ mp4 = Mp4PacketReaderNew(FileOf(c), OffsetsOf(c.chunks, c.gap, 0),
                     [i \in 1..Len(PacketsOf(c)) |-> Len(PacketsOf(c)[i])],
                     c.stsc)
         /\ hist = [packets |-> PacketsOf(c), calls |-> <<>>, items |-> <<>>]
    /\ iter = SamplesNew
    /\ data = <<>>
    /\ bc = BitCursorNew(<<>>)
    /\ res = [op |-> "new", st |-> "ok", moved |-> 0]

NextReader ==
    \/ SamplesNext
    \/ SamplesNextDecoded
    \/ TagMissing
    \/ AudioElement
    \/ Unsupported
    \/ DataStreamElement
    \/ FillElement
    \/ EndElement

SpecReader == InitReader /\ [][NextReader]_vars

---------------------------------------------------------------------------
(* Claims about the bit cursor, under SpecCursor                           *)

\* Bit q (0-based, MSB-first within each byte) of the slice d
BitOf(d, q) == (d[(q \div 8) + 1] \div Pow2(7 - (q % 8))) % 2

\* The natural number spelled by the n <= 16 bits of d from bit p on
RECURSIVE BitsNat(_, _, _)
BitsNat(d, p, n) ==
    IF n = 0 THEN 0 ELSE 2 * BitsNat(d, p, n - 1) + BitOf(d, p + n - 1)

\* The word spelled by the n <= 32 bits of d from bit p on, big-endian
BitsWord(d, p, n) ==
    IF n <= 16 THEN Mk(0, BitsNat(d, p, n))
    ELSE Mk(BitsNat(d, p, n - 16), BitsNat(d, p + n - 16, 16))

\* what a cursor operation returning r from cursor c must satisfy when it
\* was asked for n bits
CleanRead(c, n, r) ==
    /\ r.st \in {"ok", "nodata"}
    /\ (r.st = "ok") <=> (n <= BitsLeft(data, c))
    /\ r.st = "nodata" => r.cur = c
    /\ r.st = "ok" => AbsPos(data, r.cur) = AbsPos(data, c) + n

\* C5: in every cursor state reached by any sequence of reads and skips, a
\* read_bit/read_u8/read_u16/read_u32/skip of N bits succeeds exactly when
\* at least N bits remain; a failure is NotEnoughData and leaves the cursor
\* unchanged; a success advances the position by exactly N bits.
C5_ReadSucceedsIffEnoughBits ==
    /\ \A n \in 1..32 : CleanRead(bc, n, read_u32(bc, n))
    /\ \A n \in 1..16 : CleanRead(bc, n, read_u16(bc, n))
    /\ \A n \in 1..8 : CleanRead(bc, n, read_u8(bc, n))
    /\ CleanRead(bc, 1, read_bit(bc))
    /\ \A n \in 0..(8 * MaxBytes + 1) : CleanRead(bc, n, skip(bc, n))

\* C5 witness: a read failed for lack of data in the second register or
\* later, with some (but too few) bits still left
C5_Witness ==
    /\ res.op = "read_u32"
    /\ res.st = "nodata"
    /\ BitsLeft(data, bc) > 0
    /\ AbsPos(data, bc) > 32

\* C6: a successful read_u32(n), 1 <= n <= 32, at bit position p returns the
\* unsigned integer spelled by bits p .. p+n-1 of the slice, MSB-first and
\* big-endian, wherever p and p+n fall relative to the 32-bit register.
C6_ReadReturnsTheBits ==
    \A n \in 1..32 :
        LET r == read_u32(bc, n)
        IN  r.st = "ok" => r.val = BitsWord(data, AbsPos(data, bc), n)

\* C6 witness: a read_u32 succeeded and ended inside the final one-byte
\* register of a nine-byte slice, from where reads of the last bits follow
C6_Witness ==
    /\ res.op = "read_u32"
    /\ res.st = "ok"
    /\ Len(data) > 8
    /\ Len(bc.buf) = 0
    /\ bc.current_len = 8
    /\ bc.current_pos \in 1..7

\* C7: after any sequence of reads and skips, skip_to_byte succeeds and
\* advances the position by the least d in 0..7 that makes it a multiple of
\* 8, and a following read_u8(8) returns the whole byte at that boundary.
C7_SkipToByteAligns ==
    LET p == AbsPos(data, bc)
        r == skip_to_byte(bc)
        q == AbsPos(data, r.cur)
        b == read_u8(r.cur, 8)
    IN  /\ r.st = "ok"
        /\ q = 8 * ((p + 7) \div 8)
        /\ q - p \in 0..7
        /\ q < 8 * Len(data) => b.st = "ok" /\ b.val = data[(q \div 8) + 1]

\* C7 witness: skip_to_byte moved an unaligned cursor in the second
\* register forward to a byte boundary that still has a byte after it
C7_Witness ==
    /\ res.op = "skip_to_byte"
    /\ res.st = "ok"
    /\ res.moved \in 1..7
    /\ AbsPos(data, bc) > 32
    /\ BitsLeft(data, bc) >= 8

---------------------------------------------------------------------------
(* Claims about StreamInfo, under SpecCookie                               *)

\* whether the parser returned a StreamInfo (which the caller may since
\* have asked for max_samples_per_packet)
Returned == parsed.st \in {"ok", "asked"}

\* c without a leading twelve-byte atom whose bytes [4..8] are name
WithoutAtom(c, name) ==
    IF Len(c) >= 12 /\ SubSeq(c, 5, 8) = name THEN SubSeq(c, 13, Len(c)) ELSE c

\* the cookie with an optional 'frma' and then an optional 'alac' prefix
\* removed
Stripped(c) == WithoutAtom(WithoutAtom(c, Frma), Alac)

\* the big-endian u32 at 0-based offset o of b, as a word
BE32(b, o) == Mk(b[o + 1] * 256 + b[o + 2], b[o + 3] * 256 + b[o + 4])

\* the fields at the fixed offsets of the 24-byte block b
FieldsAt(b) ==
    [frame_length       |-> BE32(b, 0),
     compatible_version |-> b[5],
     bit_depth          |-> b[6],
     pb                 |-> b[7],
     mb                 |-> b[8],
     kb                 |-> b[9],
     num_channels       |-> b[10],
     max_run            |-> b[11] * 256 + b[12],
     max_frame_bytes    |-> BE32(b, 12),
     avg_bit_rate       |-> BE32(b, 16),
     sample_rate        |-> BE32(b, 20)]

TooShort(c) == Len(c) < 24 \/ Len(Stripped(c)) < 24

\* C8: from_cookie never indexes outside the cookie; a cookie of fewer than
\* 24 bytes before or after the optional 'frma' and 'alac' prefixes are
\* removed is InvalidData (and only such a cookie is rejected for its
\* length); a returned StreamInfo holds the big-endian values at the fixed
\* offsets of the 24-byte block that follows the prefixes.
C8_CookieFieldsAtFixedOffsets ==
    (input.kind = "cookie" /\ parsed.st # "none") =>
        /\ parsed.st # "panic"
        /\ TooShort(input.bytes) <=>
             (parsed.st = "err" /\ parsed.msg = "magic cookie is not the correct length")
        /\ Returned => parsed.info = FieldsAt(Stripped(input.bytes))

\* C8 witness: a cookie with both the 'frma' and the 'alac' prefix was
\* parsed into the StreamInfo of the block behind them
C8_Witness ==
    /\ input.kind = "cookie"
    /\ input.bytes = FrmaAtom \o AlacAtom \o Canonical
    /\ parsed.st = "ok"
    /\ parsed.info.frame_length = 4096
    /\ parsed.info.max_run = 4660
    /\ parsed.info.sample_rate = 44100

\* whether the exact product of the u32 word fl and the u8 nc is below 2^32
ProductFits(fl, nc) == UHi(fl) * nc + (Lo(fl) * nc) \div 65536 < 65536

\* the exact product of fl and nc as a word, when it is below 2^32
Product(fl, nc) ==
    Mk(UHi(fl) * nc + (Lo(fl) * nc) \div 65536, (Lo(fl) * nc) % 65536)

\* a well-formed decimal token whose value is zero
IsZero(tok) == tok # <<>> /\ \A i \in 1..Len(tok) : tok[i] = "0"

\* whether the input describes a stream that must be rejected: no channel,
\* no bit depth, or more than 2^32-1 samples in a packet
MustReject ==
    \/ /\ input.kind = "cookie"
       /\ ~TooShort(input.bytes)
       /\ \/ FieldsAt(Stripped(input.bytes)).num_channels = 0
          \/ FieldsAt(Stripped(input.bytes)).bit_depth = 0
          \/ ~ProductFits(FieldsAt(Stripped(input.bytes)).frame_length,
                          FieldsAt(Stripped(input.bytes)).num_channels)
    \/ /\ input.kind = "sdp"
       /\ Len(split_whitespace(input.text)) = 11
       /\ \/ IsZero(split_whitespace(input.text)[7])
          \/ IsZero(split_whitespace(input.text)[3])
          \/ /\ split_whitespace(input.text)[1] = MaxU32Text
             /\ split_whitespace(input.text)[7] = Dec(2)

\* C9: both parsers answer InvalidData for a stream with no channel, with
\* bit depth zero, or whose frame_length * num_channels exceeds u32; so a
\* returned StreamInfo has num_channels >= 1, bit_depth >= 1 and a
\* max_samples_per_packet() that is the exact product, in either build.
C9_ValidatedStreamInfo ==
    /\ (parsed.st # "none" /\ MustReject) => parsed.st = "err"
    /\ Returned =>
         /\ parsed.info.num_channels >= 1
         /\ parsed.info.bit_depth >= 1
         /\ ProductFits(parsed.info.frame_length, parsed.info.num_channels)
    /\ parsed.st = "asked" =>
         /\ parsed.max_samples.st = "ok"
         /\ parsed.max_samples.val =
              Product(parsed.info.frame_length, parsed.info.num_channels)

\* C9 witness: a returned StreamInfo of 255 channels whose product is the
\* largest u32, 0x01010101 * 255 = 0xFFFFFFFF, was asked for it
C9_Witness ==
    /\ parsed.st = "asked"
    /\ parsed.info.num_channels = 255
    /\ parsed.info.frame_length = Mk(257, 257)
    /\ parsed.max_samples.val = -1

\* C10: every StreamInfo returned by from_cookie or
\* from_sdp_format_parameters has bit_depth in 1..=32.
C10_BitDepthAtMost32 ==
    Returned => parsed.info.bit_depth \in 1..32

\* C10 witness: a parser returned a StreamInfo (here one of bit depth 32)
C10_Witness ==
    /\ parsed.st = "ok"
    /\ parsed.info.bit_depth = 32

---------------------------------------------------------------------------
(* Claims about decode_packet, under SpecDecode                            *)

\* decode_packet was called as its contract asks: the sample type is at
\* least as wide as the bit depth and out has max_samples_per_packet
\* elements or more
WithinContract ==
    /\ ret.st # "idle"
    /\ config.bit_depth <= sbits
    /\ Len(out) >= max_samples_per_packet(config).val

\* C1: for a StreamInfo that from_cookie returned, a sample type at least as
\* wide as its bit depth and an out of at least max_samples_per_packet
\* elements, decode_packet returns Ok or InvalidData on every packet: no
\* assertion failure, overflow, oversized shift or index out of bounds is
\* reached, so the call never panics
C1_DecodeNeverPanics == WithinContract => ret.st # "panic"

\* a call within the contract, of a build without overflow checks, that
\* panicked on the predictor order read from the packet
C1_Witness ==
    /\ WithinContract
    /\ ~debug
    /\ ret.st = "panic"
    /\ ret.msg = "assert!(lpc_order[i] != 31)"

\* element e of the log has a channel whose running channel index is c
Covers(e, c) == log[e].at <= c /\ c < log[e].at + log[e].channels

\* sample i of the channel of element e whose running channel index is c
SampleOf(e, c, i) == log[e].chans[c - log[e].at + 1][i + 1]

C3_ExcessChannelsRejected ==
    \A e \in 1..Len(log) :
        log[e].at + log[e].channels > config.num_channels =>
            /\ log[e].st = "err"
            /\ log[e].msg = "packet contains more channels than expected"
            /\ log[e].wrote = {}
            /\ log[e].chans = <<<<>>, <<>>>>

\* a CPE met at channel_index 254 of a stream of 255 channels that was
\* decoded and wrote out[254] and out[255]
C3_Witness ==
    \E e \in 1..Len(log) :
        /\ config.num_channels = 255
        /\ log[e].tag = ID_CPE
        /\ log[e].at = 254
        /\ log[e].st = "ok"
        /\ log[e].wrote = {254, 255}

\* C4: decode_packet returns Ok only at an END tag met when the audio
\* elements decoded cover num_channels channels exactly, and an END tag met
\* when channel_index is not num_channels gives InvalidData
C4_OkOnlyAtEndOfAllChannels ==
    /\ ret.st = "ok" => last = ID_END /\ covered = config.num_channels
    /\ (last = ID_END /\ channel_index # config.num_channels) =>
          /\ ret.st = "err"
          /\ ret.msg = "packet contains fewer channels than expected"

\* Ok for a packet whose elements have 511 channels, in a stream of 255
C4_Witness ==
    /\ ret.st = "ok"
    /\ last = ID_END
    /\ config.num_channels = 255
    /\ covered = 511

---------------------------------------------------------------------------
(* Claims about from_sdp_format_parameters, under SpecCookie               *)

\* the tokens of the SDP text that was parsed
SdpTokens == split_whitespace(input.text)

\* a token without one leading "+" and without its leading zeros
RECURSIVE WithoutZeros(_)
WithoutZeros(t) == IF Len(t) > 1 /\ t[1] = "0" THEN WithoutZeros(Tail(t)) ELSE t
Unsigned(tok) ==
    WithoutZeros(IF Len(tok) > 1 /\ tok[1] = "+" THEN Tail(tok) ELSE tok)

\* whether the digit string d is at most the digit string m of the same length
AtMost(d, m) ==
    \/ d = m
    \/ \E i \in 1..Len(d) :
          /\ DigitVal(d[i]) < DigitVal(m[i])
          /\ \A j \in 1..(i - 1) : d[j] = m[j]

\* the decimal digits of the u32 with halves hi and lo, by long division
RECURSIVE NumeralOf(_, _)
NumeralOf(hi, lo) ==
    IF hi = 0 /\ lo < 10 THEN <<DigitChars[lo + 1]>>
    ELSE Append(NumeralOf(hi \div 10, ((hi % 10) * 65536 + lo) \div 10),
                DigitChars[(((hi % 10) * 65536 + lo) % 10) + 1])

\* the decimal digits of a u32, u16 or u8 value
Numeral(w) == NumeralOf(UHi(w), Lo(w))

\* the digits of the largest value of the k-th field
LargestOf(k) ==
    IF FieldMax[k] = 32 THEN NumeralOf(65535, 65535) ELSE NumeralOf(0, FieldMax[k])

\* whether the token is a decimal number within the range of the k-th field
InRange(tok, k) ==
    /\ tok # <<>>
    /\ \A i \in 1..Len(Unsigned(tok)) : IsDigit(Unsigned(tok)[i])
    /\ \/ Len(Unsigned(tok)) < Len(LargestOf(k))
       \/ /\ Len(Unsigned(tok)) = Len(LargestOf(k))
          /\ AtMost(Unsigned(tok), LargestOf(k))

\* eleven tokens, each a decimal number within the range of its field
ElevenNumbers ==
    Len(SdpTokens) = 11 /\ \A k \in 1..11 : InRange(SdpTokens[k], k)

\* the fields of a StreamInfo in declaration order
FieldsOf(info) ==
    <<info.frame_length, info.compatible_version, info.bit_depth, info.pb,
      info.mb, info.kb, info.num_channels, info.max_run,
      info.max_frame_bytes, info.avg_bit_rate, info.sample_rate>>

\* the big-endian bytes of a u32 and of a u16
Bytes4(w) == <<UHi(w) \div 256, UHi(w) % 256, Lo(w) \div 256, Lo(w) % 256>>
Bytes2(n) == <<n \div 256, n % 256>>

\* the 24-byte cookie that holds the fields of info
CookieOf(info) ==
    Bytes4(info.frame_length)
    \o <<info.compatible_version, info.bit_depth, info.pb, info.mb, info.kb,
         info.num_channels>>
    \o Bytes2(info.max_run) \o Bytes4(info.max_frame_bytes)
    \o Bytes4(info.avg_bit_rate) \o Bytes4(info.sample_rate)

\* whether an SDP text was parsed
SdpParsed == input.kind = "sdp" /\ parsed.st # "none"

\* C11: from_sdp_format_parameters succeeds only on eleven tokens that are
\* decimal numbers within the range of their fields, and returns InvalidData
\* on fewer or more tokens and on a token that is no such number; a
\* StreamInfo it returns holds the values of the tokens and is the
\* StreamInfo from_cookie returns for the 24-byte cookie of those values
C11_SdpSameAsCookie ==
    SdpParsed =>
        /\ Returned =>
              /\ ElevenNumbers
              /\ \A k \in 1..11 :
                    Numeral(FieldsOf(parsed.info)[k]) = Unsigned(SdpTokens[k])
              /\ from_cookie(CookieOf(parsed.info)) = ParseOk(parsed.info)
        /\ ~Returned => parsed.st = "err"
        /\ ~ElevenNumbers => parsed.st = "err"

\* parameters that from_sdp_format_parameters accepted although from_cookie
\* refuses the cookie of the same values, which begins like a 'frma' atom
C11_Witness ==
    /\ SdpParsed
    /\ parsed.st = "ok"
    /\ SdpTokens = NamedTokens(Frma)
    /\ parsed.info.bit_depth = 114
    /\ from_cookie(CookieOf(parsed.info)).st = "err"

\* the same with the cookie route left out: what the parser returns holds
\* the values of eleven well-formed tokens
C11_SdpFieldsAreTheTokens ==
    (SdpParsed /\ Returned) =>
        /\ ElevenNumbers
        /\ \A k \in 1..11 :
              Numeral(FieldsOf(parsed.info)[k]) = Unsigned(SdpTokens[k])

---------------------------------------------------------------------------
(* Claims about the decoder's inner values, under SpecDecode               *)

\* the values of the kind `what` that the audio elements of the call met
Observed(what) ==
    {o \in UNION {log[e].obs : e \in 1..Len(log)} : o.what = what}

\* w >> n as a number (rounding down), 0 <= n < 32
ShiftedDown(w, n) == IF n = 0 THEN w ELSE (w \div 2) \div (2 ^ (n - 1))

\* w has its n lowest bits clear, 0 <= n < 32
LowBitsClear(w, n) ==
    n = 0 \/ (w % 2 = 0 /\ (w \div 2) % (2 ^ (n - 1)) = 0)

\* x and y have the same n lowest bits, 1 <= n <= 32
SameLowBits(x, y, n) == IF n = 32 THEN x = y ELSE x % (2 ^ n) = y % (2 ^ n)

---------------------------------------------------------------------------
(* Claims about the Reader, under SpecReader                               *)

\* the samples the calls of next yielded, in the order of the calls
YieldedSamples ==
    LET ok == SelectSeq(hist.items, LAMBDA it : it.st = "ok")
    IN  [k \in 1..Len(ok) |-> ok[k].v]

\* the samples of the slices decode_packet returned, in the order of the calls
DecodedSamples ==
    Flat([i \in 1..Len(hist.calls) |->
            IF hist.calls[i].st = "ok" THEN hist.calls[i].samples ELSE <<>>])

\* C13: after a call of next returned ReadError::Decoder for a packet, the
\* next call asks the packet reader for the following packet of the
\* container; every packet handed to the decoder is the packet of the
\* container at the index asked for, and none is handed to it twice; the
\* samples yielded so far are those of the slices decode_packet returned
\* with Ok, in order, so none of a failed packet
C13_ReaderSkipsFailedPacket ==
    /\ \A n \in 1..Len(hist.items) :
          (hist.items[n].st = "err" /\ n < Len(hist.items))
             => hist.items[n + 1].fetched = hist.items[n].fetched + 1
    /\ \A i \in 1..Len(hist.calls) :
          /\ hist.calls[i].packet + 1 \in 1..Len(hist.packets)
          /\ hist.calls[i].bytes = hist.packets[hist.calls[i].packet + 1]
          /\ \A j \in 1..Len(hist.calls) :
                i < j => hist.calls[i].packet < hist.calls[j].packet
    /\ Len(YieldedSamples) <= Len(DecodedSamples)
    /\ \A k \in 1..Len(YieldedSamples) : YieldedSamples[k] = DecodedSamples[k]

\* a call returned ReadError::Decoder for a packet of the container, and
\* the next call handed the decoder bytes that are not the following packet
C13_Witness ==
    \E i \in 1..Len(hist.calls) :
       /\ i < Len(hist.calls)
       /\ hist.calls[i].st = "err"
       /\ hist.calls[i].bytes = hist.packets[hist.calls[i].packet + 1]
       /\ hist.calls[i + 1].packet = hist.calls[i].packet + 1
       /\ hist.calls[i + 1].bytes # hist.packets[hist.calls[i + 1].packet + 1]

\* where the track's sample_to_chunk has one entry the reader does skip
\* the failed packet
C13_SkipsWithOneEntry ==
    Len(mp4.sample_to_chunk) = 1 => C13_ReaderSkipsFailedPacket

\* a packet failed after it wrote samples to the buffer, and the packet
\* after it was decoded and all its samples were yielded
C13_Recovered ==
    \E i \in 1..Len(hist.calls) :
       /\ i < Len(hist.calls)
       /\ hist.calls[i].st = "err"
       /\ hist.calls[i].wrote # {}
       /\ hist.calls[i + 1].st = "ok"
       /\ hist.calls[i + 1].packet = hist.calls[i].packet + 1
       /\ hist.calls[i + 1].samples # <<>>
       /\ i + 1 = Len(hist.calls)
       /\ YieldedSamples = DecodedSamples
       /\ Len(DecodedSamples) > Len(hist.calls[i + 1].samples)

\* the events of the kind `what` that element e of the log met
ObservedIn(e, what) == {o \in log[e].obs : o.what = what}

\* bit_depth - sample_shift + element_channels - 1 over the integers, for
\* the compressed element whose sample_shift and element_channels o records
ChanBitsOver(o) == config.bit_depth - o.a + o.b - 1

\* C14: a compressed element that passes the chan_bits check has a
\* chan_bits equal to bit_depth - sample_shift + element_channels - 1 over
\* the integers and within 1..=32, and this is the bps that
\* rice_decompress, lpc_predict_order_31, lpc_predict and sign_extend get;
\* an element for which the value is above 32 ends in
\* InvalidData("channel bit depth cannot be greater than 32")
C14_ChanBitsExactAndInRange ==
    \A e \in 1..Len(log) : \A o \in ObservedIn(e, "compressed") :
       /\ \A c \in ObservedIn(e, "chan_bits") :
             /\ c.a = ChanBitsOver(o)
             /\ c.a \in 1..32
             /\ \A u \in ObservedIn(e, "rice_decompress")
                         \cup ObservedIn(e, "lpc_predict_order_31")
                         \cup ObservedIn(e, "lpc_predict") : u.b = c.a
             /\ \A u \in ObservedIn(e, "sign_extend") : u.a = c.a
       /\ ChanBitsOver(o) > 32 =>
             /\ log[e].st = "err"
             /\ log[e].msg = "channel bit depth cannot be greater than 32"

\* a compressed element passed the check with a chan_bits of 0, which
\* rice_decompress and sign_extend got as their bps
C14_Witness ==
    \E e \in 1..Len(log) :
       /\ \E c \in ObservedIn(e, "chan_bits") : c.a = 0
       /\ \E u \in ObservedIn(e, "rice_decompress") : u.b = 0
       /\ \E u \in ObservedIn(e, "sign_extend") : u.a = 0

\* but for the lower end of the range the claim holds: chan_bits is the
\* value over the integers and at most 32 where the check passed, and every
\* element above 32 is refused
C14_ChanBitsExact ==
    \A e \in 1..Len(log) : \A o \in ObservedIn(e, "compressed") :
       /\ \A c \in ObservedIn(e, "chan_bits") :
             /\ c.a = ChanBitsOver(o)
             /\ c.a \in 0..32
             /\ \A u \in ObservedIn(e, "rice_decompress")
                         \cup ObservedIn(e, "lpc_predict_order_31")
                         \cup ObservedIn(e, "lpc_predict") : u.b = c.a
             /\ \A u \in ObservedIn(e, "sign_extend") : u.a = c.a
       /\ ChanBitsOver(o) > 32 =>
             /\ log[e].st = "err"
             /\ log[e].msg = "channel bit depth cannot be greater than 32"

\* an element of 33 bits was refused, and one passed the check with bits
\* shifted off
C14_Refused ==
    \E e \in 1..Len(log) : \E o \in ObservedIn(e, "compressed") :
       ChanBitsOver(o) = 33 /\ log[e].st = "err"

\* the stages run on channel ch of element e after its rice_decompress
Order31Ran(e, ch) == \E o \in ObservedIn(e, "lpc_predict_order_31") : o.a = ch
LpcPredictRan(e, ch) == \E o \in ObservedIn(e, "lpc_predict") : o.a = ch

\* C15: on a channel of a compressed element whose rice_decompress returned
\* Ok exactly one prediction stage runs: with lpc_mode 15 the order-31
\* pass and not lpc_predict, with lpc_mode 0 lpc_predict and not the
\* order-31 pass; with an lpc_mode of 1..=14 neither runs and the element
\* ends in InvalidData("invalid lpc mode")
C15_OnePredictionStage ==
    \A e \in 1..Len(log) : \A o \in ObservedIn(e, "decoded") :
       /\ o.b = 15 => Order31Ran(e, o.a) /\ ~LpcPredictRan(e, o.a)
       /\ o.b = 0 => LpcPredictRan(e, o.a) /\ ~Order31Ran(e, o.a)
       /\ o.b \in 1..14 =>
             /\ ~Order31Ran(e, o.a) /\ ~LpcPredictRan(e, o.a)
             /\ log[e].st = "err" /\ log[e].msg = "invalid lpc mode"

\* on a channel of lpc_mode 15 the order-31 pass ran and lpc_predict ran
\* after it, and the element was decoded
C15_Witness ==
    \E e \in 1..Len(log) : \E o \in ObservedIn(e, "decoded") :
       /\ o.b = 15
       /\ Order31Ran(e, o.a)
       /\ LpcPredictRan(e, o.a)
       /\ log[e].st = "ok"

\* what the stages do: lpc_mode 1..=14 is refused before any stage; the
\* order-31 pass runs for lpc_mode 15 alone; lpc_predict runs after it for
\* lpc_mode 0 and 15 alike, unless lpc_order is 31, which panics
C15_StagesRun ==
    \A e \in 1..Len(log) : \A o \in ObservedIn(e, "decoded") :
       /\ Order31Ran(e, o.a) <=> o.b = 15
       /\ LpcPredictRan(e, o.a) <=> (o.b \in {0, 15} /\ o.c # 31)
       /\ o.b \in 1..14 => log[e].st = "err" /\ log[e].msg = "invalid lpc mode"
       /\ (o.b \in {0, 15} /\ o.c = 31) => log[e].st = "panic"

\* element e ended in the panic of assert!(lpc_order[i] != 31)
Order31Asserted(e) ==
    log[e].st = "panic" /\ log[e].msg = "assert!(lpc_order[i] != 31)"

\* C16: a compressed element with a channel of lpc_order 31 (whose rice
\* data decoded) ends in an InvalidData error when the channel's lpc_mode
\* is not 15; with lpc_mode 15 the order is accepted: the order-31 pass
\* runs and the element is not refused for its order or mode
C16_Order31RejectedOutsideMode15 ==
    \A e \in 1..Len(log) : \A o \in ObservedIn(e, "decoded") :
       o.c = 31 =>
          /\ o.b # 15 => log[e].st = "err"
          /\ o.b = 15 =>
                /\ Order31Ran(e, o.a)
                /\ ~Order31Asserted(e)
                /\ ~(log[e].st = "err" /\ log[e].msg = "invalid lpc mode")

\* an element of lpc_order 31 in lpc_mode 15 passed the order-31 pass and
\* ended in the panic of the assertion
C16_Witness ==
    \E e \in 1..Len(log) : \E o \in ObservedIn(e, "decoded") :
       o.c = 31 /\ o.b = 15 /\ Order31Ran(e, o.a) /\ Order31Asserted(e)

\* what an lpc_order of 31 ends in: InvalidData("invalid lpc mode") for an
\* lpc_mode of 1..=14, the panic of the assertion for the lpc_modes 0 and 15
C16_Order31Outcome ==
    \A e \in 1..Len(log) : \A o \in ObservedIn(e, "decoded") :
       o.c = 31 =>
          /\ o.b \in 1..14 => log[e].st = "err" /\ log[e].msg = "invalid lpc mode"
          /\ o.b \in {0, 15} => Order31Asserted(e)

\* an element of lpc_order 31 in lpc_mode 0 panicked, and one in an
\* lpc_mode of 1..=14 was refused
C16_Mode0Panics ==
    \E e \in 1..Len(log) : \E o \in ObservedIn(e, "decoded") :
       o.c = 31 /\ o.b = 0 /\ Order31Asserted(e)
C16_Mode7Refused ==
    \E e \in 1..Len(log) : \E o \in ObservedIn(e, "decoded") :
       o.c = 31 /\ o.b = 7 /\ log[e].st = "err"

\* the dispatcher is at a FIL tag
AtFil ==
    /\ ret.st = "running"
    /\ BitsLeft(packet, reader) >= 3
    /\ BitsNat(packet, AbsPos(packet, reader), 3) = ID_FIL

\* the bits of a FIL element's fields and the bytes it says to skip, read
\* off the packet at bit p: 15 + ext - 1 where the 4-bit field is 15
FilFieldBits(p) ==
    IF 8 * Len(packet) - p >= 7 /\ BitsNat(packet, p + 3, 4) = 15 THEN 15 ELSE 7
FilBytes(p) ==
    IF BitsNat(packet, p + 3, 4) = 15
    THEN 15 + BitsNat(packet, p + 7, 8) - 1
    ELSE BitsNat(packet, p + 3, 4)

\* what the step at a FIL tag at bit p does: InvalidData where the packet
\* ends before the fields or before the bytes to skip do, else the reader
\* is moved past the fields and FilBytes(p) bytes, for the next tag
FilStep(p) ==
    IF 8 * Len(packet) - p < FilFieldBits(p)
       \/ 8 * Len(packet) - p - FilFieldBits(p) < 8 * FilBytes(p)
    THEN ret'.st = "err" /\ ret'.msg = "packet is not long enough"
    ELSE /\ ret'.st = "running"
         /\ AbsPos(packet, reader') = p + FilFieldBits(p) + 8 * FilBytes(p)
         /\ channel_index' = channel_index
         /\ out' = out

\* C17: at a FIL tag the dispatcher skips the 4-bit count of bytes, or
\* 15 + ext - 1 bytes where the count is 15, for every ext (14 bytes for an
\* ext of 0), and goes on with the next tag; it ends in InvalidData only
\* where the packet is too short
C17_FilSkipsCountBytes == [][AtFil => FilStep(AbsPos(packet, reader))]_vars

\* a FIL element with the count 15 and an ext of 0 was met and the call
\* ended in a panic
C17_Witness ==
    /\ last = ID_FIL
    /\ ret.st = "panic"
    /\ ret.msg = "read_u8(8)? as usize - 1"

\* without overflow checks the claim holds, with them it holds of every
\* FIL element but those of count 15 and ext 0
C17_FilSkipsUnlessExtZero ==
    [][(AtFil /\ ~(debug /\ FilFieldBits(AbsPos(packet, reader)) = 15
                         /\ 8 * Len(packet) - AbsPos(packet, reader) >= 15
                         /\ FilBytes(AbsPos(packet, reader)) = 14))
          => FilStep(AbsPos(packet, reader))]_vars

\* FIL elements of 1, 14 and 15 bytes were skipped and the element after
\* them decoded
C17_Skipped ==
    /\ last = ID_FIL
    /\ ret.st = "running"
    /\ AbsPos(packet, reader) = 15 + 8 * 14

\* the rounds of the rice loop that element e went through: the zero-run
\* branch, the main symbols, the history updates
ZeroRuns(e) == ObservedIn(e, "zero_run")
MainSymbols(e) == ObservedIn(e, "main_symbol")
HistoryUpdates(e) == ObservedIn(e, "history")

C18_RunOf8Decoded ==
    /\ ret.st = "ok"
    /\ \E e \in 1..Len(log) : \E o \in ZeroRuns(e) : o.b = 8

\* C19: every main symbol of the rice loop is decoded with
\* k = min(log2((rice_history >> 9) + 3), kb), which is in 1..=kb and never
\* 0, and with m = 2^k - 1
C19_MainSymbolParameterFrom1 ==
    \A e \in 1..Len(log) : \A o \in MainSymbols(e) :
        /\ o.b = Min(log_2(UAdd(UShr(o.a, 9), 3).val), config.kb)
        /\ o.b \in 1..config.kb
        /\ o.c = Pow2(o.b) - 1

\* a stream whose cookie has a kb of 0 was decoded and a main symbol of
\* it was decoded with k = 0
C19_Witness ==
    /\ config.kb = 0
    /\ \E e \in 1..Len(log) : \E o \in MainSymbols(e) : o.b = 0 /\ o.c = 0
    /\ ret.st = "panic"

\* the parameters are as the claim has them but for the lower bound of k,
\* which is 1 where kb is not 0 and 0 where it is
C19_MainSymbolParameter ==
    \A e \in 1..Len(log) : \A o \in MainSymbols(e) :
        /\ o.b = Min(log_2(UAdd(UShr(o.a, 9), 3).val), config.kb)
        /\ o.b \in 0..config.kb
        /\ (o.b = 0 <=> config.kb = 0)
        /\ o.c = Pow2(o.b) - 1

\* main symbols were decoded with the smallest k, 1, and with a k bounded
\* by kb
C19_Adapted ==
    /\ ret.st = "ok"
    /\ \E e \in 1..Len(log) :
         /\ \E o \in MainSymbols(e) : o.b = 1
         /\ \E o \in MainSymbols(e) : o.b = config.kb /\ o.b > 1

\* the intermediates of the history update of a round with the history
\* rice_history, the symbol val and the multiplier mult, as 32-bit unsigned
\* words with their overflow flags
ValProduct(o) == UMul(o.b, o.c)
PartialSum(o) == UAdd(o.a, ValProduct(o).val)
HistoryProduct(o) == UMul(o.a, o.c)
HistoryDifference(o) == USub(PartialSum(o).val, UShr(HistoryProduct(o).val, 9))

\* C20: in the history update of a round with val <= 0xFFFF, whatever pb
\* and pb_factor, the subtrahend is at most the partial sum and no
\* intermediate product or sum exceeds 2^32 - 1
C20_HistoryUpdateInRange ==
    \A e \in 1..Len(log) : \A o \in HistoryUpdates(e) :
        /\ o.b \in 0..65535
        /\ \E pb_factor \in 0..7 : o.c = (config.pb * pb_factor) \div 4
        /\ ~ValProduct(o).ovf
        /\ ~PartialSum(o).ovf
        /\ ~HistoryProduct(o).ovf
        /\ ~HistoryDifference(o).ovf

\* a round with val <= 0xFFFF whose product rice_history * rice_history_mult
\* exceeds 2^32 - 1
C20_Witness ==
    \E e \in 1..Len(log) : \E o \in HistoryUpdates(e) :
        /\ o.b \in 0..65535
        /\ HistoryProduct(o).ovf

\* the subtraction does not underflow and the partial sum is in range, even
\* with the wrapped product; the product is in range when the multiplier is
\* at most 128
C20_HistoryUpdateNoUnderflow ==
    \A e \in 1..Len(log) : \A o \in HistoryUpdates(e) :
        /\ o.b \in 0..65535
        /\ o.c \in 0..446
        /\ ~ValProduct(o).ovf
        /\ ~PartialSum(o).ovf
        /\ ~HistoryDifference(o).ovf
        /\ (HistoryProduct(o).ovf => o.c > 128)

\* the round with the overflowing product ended the call in a panic with
\* overflow checks, and in an Ok with the wrapped history without them
C20_ProductPanics ==
    /\ debug
    /\ ret.st = "panic"
    /\ ret.msg = "rice_history * rice_history_mult"
C20_ProductWraps ==
    /\ ~debug
    /\ ret.st = "ok"
    /\ \E e \in 1..Len(log) : \E o \in HistoryUpdates(e) : HistoryProduct(o).ovf

\* the coefficient adaptations element e went through: those begun (j,
\* the coefficient, the sign) and those stored (with the new coefficient)
Adaptations(e) == ObservedIn(e, "adapt")
Adapted(e) == ObservedIn(e, "adapted")

\* the sum of a coefficient and a sign, kept inside the i16 range
SaturatingAdd(a, s) ==
    IF a + s > 32767 THEN 32767 ELSE IF a + s < -32768 THEN -32768 ELSE a + s

\* C21: the adaptation of a coefficient by a sign of -1, 0 or +1 stores the
\* sum saturated inside the i16 range, 32767 staying 32767 on +1 and
\* -32768 staying -32768 on -1, with no wrap-around and no failure
C21_AdaptationSaturates ==
    \A e \in 1..Len(log) : \A o \in Adaptations(e) :
        /\ o.c \in {-1, 0, 1}
        /\ \E n \in Adapted(e) :
             /\ n.a = o.a /\ n.b = o.b /\ n.c = o.c
             /\ n.d = SaturatingAdd(o.b, o.c)

\* a coefficient at 32767 was adapted by +1, or one at -32768 by -1
C21_Witness ==
    \E e \in 1..Len(log) : \E o \in Adaptations(e) :
        \/ o.b = 32767 /\ o.c = 1
        \/ o.b = -32768 /\ o.c = -1

\* what the adaptation does: the sum is stored where it is in the i16 range;
\* outside it the call panics with overflow checks and the wrapped sum is
\* stored without them
C21_AdaptationWraps ==
    \A e \in 1..Len(log) : \A o \in Adaptations(e) :
        /\ o.c \in {-1, 0, 1}
        /\ IF debug /\ ~(o.b + o.c \in -32768..32767)
           THEN /\ log[e].st = "panic"
                /\ log[e].msg = "lpc_coefs[j] +="
                /\ ~\E n \in Adapted(e) : n.a = o.a /\ n.b = o.b /\ n.c = o.c
           ELSE \E n \in Adapted(e) :
                  /\ n.a = o.a /\ n.b = o.b /\ n.c = o.c
                  /\ n.d = I16Add(o.b, o.c).val

\* the coefficient at 32767 wrapped to -32768 and the call returned Ok
C21_Wrapped ==
    /\ ~debug
    /\ ret.st = "ok"
    /\ \E e \in 1..Len(log) : \E n \in Adapted(e) : n.b = 32767 /\ n.d = -32768

\* coefficients inside the range were adapted up and down
C21_AdaptedInRange ==
    /\ ret.st = "ok"
    /\ \E e \in 1..Len(log) : \E n \in Adapted(e) :
          n.c # 0 /\ n.d = n.b + n.c /\ n.b \in -32767..32766

\* the calls of lpc_predict element e made: the channel, bps, lpc_quant
\* and the number of coefficients
Predictions(e) == ObservedIn(e, "lpc_predict")

\* C22: every call of lpc_predict made by the decoding of an audio element
\* has an lpc_quant of at least 1, whatever 4-bit lpc_quant the packet
\* carries, so that 1 << (lpc_quant - 1) is well defined
C22_QuantAtLeast1 ==
    \A e \in 1..Len(log) : \A o \in Predictions(e) : o.c \in 1..15

\* lpc_predict was called with an lpc_quant of 0 on a buffer longer than
\* the order plus one, and the rounding term ended the call in a panic
C22_Witness ==
    \E e \in 1..Len(log) :
        /\ \E o \in Predictions(e) : o.c = 0 /\ o.d + 1 < log[e].samples
        /\ log[e].st = "panic"
        /\ log[e].msg = "lpc_quant - 1"

\* lpc_quant is the 4-bit field of the packet, 0 included; with overflow
\* checks a call with 0 that predicts a sample ends in the panic
C22_QuantIsTheField ==
    \A e \in 1..Len(log) : \A o \in Predictions(e) :
        /\ o.c \in 0..15
        /\ (debug /\ o.c = 0 /\ log[e].st = "panic" /\ log[e].msg = "lpc_quant - 1"
              => o.d + 1 < log[e].samples)

\* the call with an lpc_quant of 0 returned Ok without overflow checks
C22_Quant0Decoded ==
    /\ ~debug
    /\ ret.st = "ok"
    /\ \E e \in 1..Len(log) : \E o \in Predictions(e) : o.c = 0

\* the zero_block_len values call c of rice_decompress in element e met,
\* and whether one is too long for what is left of buf after index a
ZeroBlockLens(e, c) == {o \in ObservedIn(e, "zero_block_len") : o.d = c}
TooLong(o) == o.b < 0 \/ (o.b > 0 /\ o.b >= o.c - o.a)

\* call c of rice_decompress in element e returned Ok: a later call began,
\* or the element went on with the channel after the last call
RiceReturnedOk(e, c) ==
    \/ c < Len(log[e].w)
    \/ \E o \in ObservedIn(e, "decoded") : o.a = c - 1

\* the indices of buf that call c assigned, in the order of assignment
AssignedBy(e, c) == [p \in 1..Len(log[e].w[c]) |-> log[e].w[c][p].at]

\* what a zero_block_len o of call c did: too long, the call ends in
\* InvalidData with nothing assigned after index o.a; else the o.b indices
\* after o.a are zero-filled and the next symbol goes to the index after
ZeroBlockEffect(e, c, o) ==
    IF TooLong(o)
    THEN /\ log[e].st = "err"
         /\ log[e].msg = "zero block contains too many samples for channel"
         /\ c = Len(log[e].w)
         /\ Len(log[e].w[c]) = o.a + 1
    ELSE /\ Len(log[e].w[c]) >= o.a + 1 + o.b
         /\ log[e].w[c][o.a + 1] = [at |-> o.a, zero |-> FALSE]
         /\ \A n \in 1..o.b :
              log[e].w[c][o.a + 1 + n] = [at |-> o.a + n, zero |-> TRUE]
         /\ Len(log[e].w[c]) > o.a + 1 + o.b
              => log[e].w[c][o.a + 2 + o.b] = [at |-> o.a + o.b + 1, zero |-> FALSE]

\* C23: a zero-run length run > 0 met at index i with run >= num_samples - i
\* makes rice_decompress fail with InvalidData without writing outside buf;
\* otherwise exactly buf[i+1 ..= i+run] are zeroed and the next symbol is
\* decoded into index i+run+1; on success every index of buf[0..num_samples]
\* was assigned exactly once and no index >= num_samples was written
C23_ZeroRunsStayInsideBuf ==
    \A e \in 1..Len(log) : \A c \in 1..Len(log[e].w) :
        /\ \A p \in 1..Len(log[e].w[c]) : AssignedBy(e, c)[p] \in 0..(log[e].samples - 1)
        /\ \A o \in ZeroBlockLens(e, c) :
              o.c = log[e].samples /\ ZeroBlockEffect(e, c, o)
        /\ RiceReturnedOk(e, c)
              => AssignedBy(e, c) = [p \in 1..log[e].samples |-> p - 1]

\* a call of rice_decompress met a zero-run length above 0, zeroed the
\* block and the packet decoded to Ok
C23_Witness ==
    /\ ret.st = "ok"
    /\ \E e \in 1..Len(log) : \E c \in 1..Len(log[e].w) :
         \E o \in ZeroBlockLens(e, c) :
            /\ o.b > 0
            /\ ~TooLong(o)
            /\ RiceReturnedOk(e, c)

\* a zero-run length too long for buf ended the call in InvalidData
C23_Refused ==
    /\ ret.st = "err"
    /\ \E e \in 1..Len(log) : \E c \in 1..Len(log[e].w) :
         \E o \in ZeroBlockLens(e, c) : TooLong(o)

\* the calls of decode_rice_symbol element e made (the bits to go at the
\* call, m, k, bps) and those that returned Ok (the bits to go at the call,
\* the symbol, the bits to go at the return)
RiceCalls(e) == ObservedIn(e, "rice_symbol")
RiceReturns(e) == ObservedIn(e, "rice_symbol_ok")

\* the unary 1-bits of the packet from bit p on after q of them, nine at
\* most; -1 where the packet ends before the 0-bit
RECURSIVE UnaryOnes(_, _)
UnaryOnes(p, q) ==
    IF q = 9 THEN 9
    ELSE IF p >= 8 * Len(packet) THEN -1
    ELSE IF BitOf(packet, p) = 1 THEN UnaryOnes(p + 1, q + 1)
    ELSE q

\* a symbol val whose bits end before bit after, where the packet has them
SymbolAt(val, after) ==
    [ok |-> after <= 8 * Len(packet), val |-> val, after |-> after]

\* the symbol spelled with m, k >= 1 and bps by the bits of the packet from
\* bit p on, after q unary 1-bits and, for k >= 2, the k - 1 bits base
SymbolWithBase(p, m, k, q, base) ==
    IF base = 0 THEN SymbolAt(q * m, p + q + k)
    ELSE IF p + q + k + 1 > 8 * Len(packet) THEN SymbolAt(0, p + q + k + 1)
    ELSE SymbolAt(q * m + 2 * base + BitOf(packet, p + q + k) - 1, p + q + k + 1)
SymbolAfterUnary(p, m, k, bps, q) ==
    IF q = -1 THEN SymbolAt(0, 8 * Len(packet) + 1)
    ELSE IF q = 9
    THEN IF p + 9 + bps > 8 * Len(packet) THEN SymbolAt(0, p + 9 + bps)
         ELSE SymbolAt(BitsWord(packet, p + 9, bps), p + 9 + bps)
    ELSE IF k = 1 THEN SymbolAt(q, p + q + 1)
    ELSE IF p + q + k > 8 * Len(packet) THEN SymbolAt(0, p + q + k)
    ELSE SymbolWithBase(p, m, k, q, BitsNat(packet, p + q + 1, k - 1))
SymbolOf(p, m, k, bps) == SymbolAfterUnary(p, m, k, bps, UnaryOnes(p, 0))

\* call o of element e returned the symbol s and left the reader after its
\* bits, or, the bits missing, ended the element in InvalidData
RiceCallGave(e, o, s) ==
    IF s.ok
    THEN \E r \in RiceReturns(e) :
            /\ r.a = o.a
            /\ r.b = s.val
            /\ r.c = 8 * Len(packet) - s.after
    ELSE /\ ~\E r \in RiceReturns(e) : r.a = o.a
         /\ log[e].st = "err"
         /\ log[e].msg = "packet is not long enough"

C24_OutOfBits ==
    /\ ret.st = "err"
    /\ \E e \in 1..Len(log) : \E o \in RiceCalls(e) :
         o.c >= 1 /\ ~SymbolOf(8 * Len(packet) - o.a, o.b, o.c, o.d).ok
C24_OutOfUnaryBits ==
    \E e \in 1..Len(log) : \E o \in RiceCalls(e) :
        o.c >= 1 /\ UnaryOnes(8 * Len(packet) - o.a, 0) = -1
C24_OutOfEscapedBits ==
    \E e \in 1..Len(log) : \E o \in RiceCalls(e) :
        /\ o.c >= 1 /\ UnaryOnes(8 * Len(packet) - o.a, 0) = 9
        /\ ~SymbolOf(8 * Len(packet) - o.a, o.b, o.c, o.d).ok
C24_OutOfRemainderBits ==
    \E e \in 1..Len(log) : \E o \in RiceCalls(e) :
        /\ o.c >= 2 /\ UnaryOnes(8 * Len(packet) - o.a, 0) \in 0..8
        /\ ~SymbolOf(8 * Len(packet) - o.a, o.b, o.c, o.d).ok

\* what element e recorded of its extra bits: the skip of the reader, the
\* entry and the return of append_extra_bits, and per sample and channel
\* the place of the read, the bits read and the value stored
ExtraSkips(e) == ObservedIn(e, "extra_skip")
ExtraBegun(e) == ObservedIn(e, "extra_begin")
ExtraDone(e) == ObservedIn(e, "extra_done")
ExtraAt(e) == ObservedIn(e, "extra_at")
ExtraRead(e) == ObservedIn(e, "extra_bits")
ExtraStored(e) == ObservedIn(e, "extra_store")

\* the t-th read of the clone, of sample i and channel j, takes the shift
\* bits the reader skipped at from bits before the end of the packet, and
\* the sample becomes (mix_buf[j][i] << sample_shift) | extra
ExtraReadIs(e, t, i, j, from, shift) ==
    /\ \E o \in ExtraAt(e) : o.a = t /\ o.b = from
    /\ \E o \in ExtraRead(e) :
         /\ o.a = i /\ o.b = j
         /\ o.c = BitsNat(packet, 8 * Len(packet) - from, shift)
         /\ o.d = from - shift
         /\ \E n \in ExtraStored(e) :
              /\ n.a = i /\ n.b = j
              /\ n.d = WOr(WShl(n.c, shift), o.c)

\* append_extra_bits, entered with the clone s.a bits and the reader main
\* bits before the end, reads the s.d values of s.c bits the reader skipped
\* and returns with the clone where the reader was after the skip and the
\* reader where it was
ExtraBitsAre(e, s, channels, main) ==
    /\ \E g \in ExtraDone(e) : g.a = s.b /\ g.b = main
    /\ log[e].channels = channels
    /\ \A t \in 0..(s.d - 1) :
         ExtraReadIs(e, t, t \div channels, t % channels, s.a - t * s.c, s.c)
    /\ \A o \in ExtraAt(e) : o.a \in 0..(s.d - 1)

\* C25: with a sample_shift above 0 the clone and the reader advance
\* independently: the clone reads exactly the sample_shift * num_samples *
\* element_channels bits the reader skipped, sample by sample and channel by
\* channel, ends where the reader was right after the skip, never runs out
\* of data, and each value becomes (mix_buf[j][i] << sample_shift) | extra
C25_ExtraBitsAreTheSkippedBits ==
    \A e \in 1..Len(log) : \A s \in ExtraSkips(e) :
        /\ s.c > 0
        /\ s.d = log[e].samples * log[e].channels
        /\ s.a - s.b = s.c * s.d
        /\ \A b \in ExtraBegun(e) :
             /\ b.a = s.a
             /\ ExtraBitsAre(e, s, log[e].channels, b.b)

\* a pair with a sample_shift of 8 had its extra bits appended and the
\* packet decoded to Ok
C25_Witness ==
    /\ ret.st = "ok"
    /\ \E e \in 1..Len(log) :
         /\ log[e].channels = 2
         /\ log[e].samples > 1
         /\ \E s \in ExtraSkips(e) : s.c = 8
         /\ ExtraDone(e) # {}
         /\ \E o \in ExtraRead(e) : o.c # 0

\* the reader ran out of data in the skip, and no clone was read
C25_SkipFailed ==
    \E e \in 1..Len(log) :
        /\ log[e].st = "err"
        /\ log[e].msg = "packet is not long enough"
        /\ ExtraSkips(e) = {}
        /\ \E o \in ObservedIn(e, "compressed") : o.a # 0

\* the caller's buffer as it was handed to the call: in SpecDecode out is
\* all zeros when decode_packet is entered
AsBeforeTheCall(i) == out[i] = 0

\* C26: a decode_packet call that returns an error leaves the caller's
\* output buffer with the contents it had before the call, also when audio
\* elements of the packet were decoded before the error was met
C26_FailedCallLeavesOut ==
    ret.st = "err" => \A i \in 1..Len(out) : AsBeforeTheCall(i)

\* a call returned an error after an element of the packet was decoded and
\* stored in out
C26_Witness ==
    /\ ret.st = "err"
    /\ \E e \in 1..Len(log) : log[e].st = "ok" /\ log[e].wrote # {}
    /\ \E i \in 1..Len(out) : out[i] # 0

\* what a failed call leaves: the elements decoded before the error have
\* their samples in out, at the positions they wrote, and every other
\* position is as it was
C26_FailedCallLeavesDecodedElements ==
    ret.st = "err" =>
        /\ \A i \in 1..Len(out) : AsBeforeTheCall(i) \/ (i - 1) \in written
        /\ \A e \in 1..Len(log) :
              log[e].st = "ok" => log[e].wrote \subseteq written

\* a call that fails in its first element, before it stores a sample,
\* leaves out as it was
C26_FirstElementFails ==
    /\ ret.st = "err"
    /\ Len(log) = 1
    /\ written = {}
    /\ \A i \in 1..Len(out) : AsBeforeTheCall(i)

\* what a call of decode_packet gave: the error, or the returned slice
Outcome(call) == <<call.st, call.msg, call.samples>>

\* C27: the outcome of decode_packet depends only on the StreamInfo and the
\* packet: a call made after any calls on the same Decoder, successful or
\* failed, and with any contents of out, gives what the call on the same
\* packet gave on the Decoder as constructed
C27_OutcomeIsOfThePacket ==
    \A i \in 1..Len(hist.calls) : \A j \in 1..Len(hist.calls) :
        hist.calls[i].bytes = hist.calls[j].bytes
            => Outcome(hist.calls[i]) = Outcome(hist.calls[j])

\* a compressed packet was decoded by the Decoder as constructed and again
\* after another packet had left its samples in the scratch buffers and in
\* out, and both calls returned Ok
C27_Witness ==
    /\ Len(hist.calls) = 3
    /\ hist.calls[1].bytes = hist.calls[3].bytes
    /\ hist.calls[1].bytes = ZeroBlockPacket
    /\ hist.calls[2].bytes # hist.calls[1].bytes
    /\ hist.calls[1].st = "ok"
    /\ hist.calls[2].st = "ok"
    /\ hist.calls[3].st = "ok"
    /\ hist.calls[2].samples # hist.calls[1].samples
    /\ \E i \in 1..Len(buf) : buf[i] # 0

\* the same after a call that failed
C27_AfterFailedCall ==
    /\ Len(hist.calls) = 3
    /\ hist.calls[1].bytes = hist.calls[3].bytes
    /\ hist.calls[2].st = "err"
    /\ hist.calls[3].st = "ok"

\* the calls of next that returned None
NoneItems == {n \in 1..Len(hist.items) : hist.items[n].st = "none"}

\* the call of decode_packet on the packet of index p returned Ok with an
\* empty slice
DecodedToNothing(p) ==
    \E i \in 1..Len(hist.calls) :
       /\ hist.calls[i].packet = p
       /\ hist.calls[i].st = "ok"
       /\ hist.calls[i].samples = <<>>

\* the samples yielded are those of the slices decode_packet returned, in
\* the order of the stream, all of them once the source is at its end, and
\* no sample is taken at or beyond sample_len
YieldsDecodedSamples ==
    /\ Len(YieldedSamples) <= Len(DecodedSamples)
    /\ \A k \in 1..Len(YieldedSamples) : YieldedSamples[k] = DecodedSamples[k]
    /\ \A n \in NoneItems :
          hist.items[n].fetched = Len(hist.packets)
             => YieldedSamples = DecodedSamples
    /\ iter.sample_pos <= iter.sample_len

\* C28: the Samples iterator yields in stream order every sample of every
\* slice decode_packet returned, never takes a sample at or beyond the
\* decoded length, and returns None only when the packet source has no more
\* packets
C28_NoneOnlyAtEndOfStream ==
    /\ YieldsDecodedSamples
    /\ \A n \in NoneItems : hist.items[n].fetched = Len(hist.packets)

\* next returned None for a packet in the middle of the stream that decoded
\* to no samples, and a later call of next yielded a sample of a later packet
C28_Witness ==
    \E n \in NoneItems : \E k \in 1..Len(hist.items) :
       /\ hist.items[n].fetched + 1 < Len(hist.packets)
       /\ DecodedToNothing(hist.items[n].fetched)
       /\ n < k
       /\ hist.items[k].st = "ok"
       /\ hist.items[k].fetched > hist.items[n].fetched

\* the same for an empty packet in the middle of the stream
C28_EmptyPacketEnds ==
    \E n \in NoneItems : \E k \in 1..Len(hist.items) :
       /\ hist.items[n].fetched + 1 < Len(hist.packets)
       /\ hist.packets[hist.items[n].fetched + 1] = <<>>
       /\ n < k
       /\ hist.items[k].st = "ok"
       /\ hist.items[k].fetched > hist.items[n].fetched

\* what the iterator does: None is returned at the end of the source, for
\* an empty packet and for a packet that decodes to no samples
C28_NoneAtEndOrForNoSamples ==
    /\ YieldsDecodedSamples
    /\ \A n \in NoneItems :
          \/ hist.items[n].fetched = Len(hist.packets)
          \/ /\ hist.items[n].fetched < Len(hist.packets)
             /\ \/ hist.packets[hist.items[n].fetched + 1] = <<>>
                \/ DecodedToNothing(hist.items[n].fetched)

\* the source was read to its end and every decoded sample was yielded
C28_ReadToTheEnd ==
    /\ \E n \in NoneItems : hist.items[n].fetched = Len(hist.packets)
    /\ Len(YieldedSamples) > 8
    /\ YieldedSamples = DecodedSamples

\* the position of the cursor of decode_packet in the packet, in bits
CursorAt == AbsPos(packet, reader)
CursorNext == AbsPos(packet', reader')

\* an iteration of the loop of decode_packet that went round: the call was
\* in the loop before it and is in the loop after it
WentRound == ret.st = "running" /\ ret'.st = "running"

\* an iteration of the loop of decode_packet that ended the call
Ended == ret.st = "running" /\ ret'.st # "running"

\* the first multiple of 8 at or above p
NextByte(p) == 8 * ((p + 7) \div 8)

\* the indices rice_decompress stored a decoded symbol at in call c of
\* element e, one for every iteration of its loop, in the order of the
\* iterations
Stores(e, c) == SelectSeq(e.w[c], LAMBDA a : ~a.zero)

\* each iteration of the loop of rice_decompress is at an index of buf
\* above that of the iteration before it
RiceLoopAdvances ==
    \A n \in 1..Len(log) : \A c \in 1..Len(log[n].w) :
       \A k \in 1..Len(Stores(log[n], c)) :
          /\ Stores(log[n], c)[k].at >= k - 1
          /\ Stores(log[n], c)[k].at < log[n].samples
          /\ k > 1 => Stores(log[n], c)[k].at > Stores(log[n], c)[k - 1].at

\* an iteration of the loop of decode_packet that goes round leaves the
\* cursor at least 3 bits further, inside the packet
DispatchAdvances ==
    WentRound => /\ CursorNext >= CursorAt + 3
                 /\ CursorNext <= 8 * Len(packet)

\* Ok is returned by the arm of END, with the cursor at the end of the byte
\* of the END tag; a failed read of the tag returns InvalidData
EndsAtEnd ==
    /\ (Ended /\ ret'.st = "ok")
          => /\ last' = ID_END
             /\ CursorNext = NextByte(CursorAt + 3)
    /\ (Ended /\ CursorAt + 3 > 8 * Len(packet))
          => /\ ret'.st = "err"
             /\ ret'.msg = "packet is not long enough"

\* C29: decode_packet terminates on every finite packet: an iteration of
\* the dispatch loop returns or advances the cursor by at least 3 bits, an
\* iteration of the Rice loop advances the output index by at least 1, and
\* the call ends with Ok at the first END tag, no bit after the byte of END
\* being read, or with InvalidData
C29_EndsWithOkOrInvalidData ==
    /\ [][DispatchAdvances /\ EndsAtEnd]_vars
    /\ [](RiceLoopAdvances)
    /\ [][Ended => ret'.st \in {"ok", "err"}]_vars

\* a call that decoded an element, went round the dispatch loop and ended
\* in a panic in a later iteration
C29_Witness ==
    /\ ret.st = "panic"
    /\ Len(log) >= 1
    /\ log[1].st = "ok"
    /\ CursorAt > 3

\* a call that ended in a panic after iterations of the Rice loop
C29_PanicAfterRiceLoop ==
    /\ ret.st = "panic"
    /\ Len(log) >= 1
    /\ Len(log[1].w) >= 1
    /\ Len(Stores(log[1], 1)) >= 2

\* both loops advance as stated and Ok comes at END; the call ends with Ok,
\* with InvalidData or with a panic
C29_LoopsAdvance ==
    /\ [][DispatchAdvances /\ EndsAtEnd]_vars
    /\ [](RiceLoopAdvances)
    /\ [][Ended => ret'.st \in {"ok", "err", "panic"}]_vars

\* a call returned Ok at an END tag that is followed by bytes of the packet
C29_DataAfterEnd ==
    /\ ret.st = "ok"
    /\ CursorAt < 8 * Len(packet)
    /\ Len(log) >= 1

\* a call went round the loop for a FIL or DSE element and later ran out of
\* bits at the tag
C29_OutOfBitsAtTag ==
    /\ ret.st = "err"
    /\ ret.msg = "packet is not long enough"
    /\ CursorAt + 3 > 8 * Len(packet)
    /\ CursorAt > 0

\* a zero block was met by the Rice loop of an element that was decoded
C29_RiceLoopSkipped ==
    \E n \in 1..Len(log) : \E c \in 1..Len(log[n].w) :
       /\ log[n].st = "ok"
       /\ Len(Stores(log[n], c)) >= 2
       /\ Len(Stores(log[n], c)) < log[n].samples

=============================================================================
